---- MODULE Spec2Model ----
(***************************************************************************)
(* Steam Dashboard: the static frontend (auth.js, app.js, reviews.js) as a *)
(* set of event handlers that suspend at every `await fetch`, running      *)
(* against the backend's authentication and ownership boundary.            *)
(*                                                                         *)
(* JavaScript strings whose content is inspected or converted (form        *)
(* fields, ids, the Authorization header) are tuples of characters or of   *)
(* opaque pieces; a token string is the tuple <<user, expiry, signature>>. *)
(***************************************************************************)
EXTENDS Integers, Sequences, FiniteSets, TLC

----------------------------------------------------------------------------
(* Bounds of the model *)

\* the server clock runs 0..MaxTime
MaxTime == 2
\* lifetime of an issued token, in clock ticks
TTL == 1
\* how many games the backend ever creates
MaxGames == 1
\* how many reviews the backend ever creates
MaxReviews == 1
\* how many calls of reloadGames can be running at once
MaxRenders == 2
\* how many cards the grid can show
MaxCards == 2
\* how many handlers the user has started and that await a fetch at once
MaxPending == 1

----------------------------------------------------------------------------
(* JavaScript values *)

null == <<"null">>
undefined == <<"undefined">>
EmptyStr == << >>

\* JS truthiness of a string-or-null value
Truthy(v) == v # null /\ v # undefined /\ v # EmptyStr

\* String(v) / implicit conversion in a string concatenation
StringOf(v) ==
  IF v = null THEN <<"n", "u", "l", "l">>
  ELSE IF v = undefined THEN <<"u", "n", "d", "e", "f", "i", "n", "e", "d">>
  ELSE v

\* a || b for string-or-null values
OrElse(a, b) == IF Truthy(a) THEN a ELSE b

\* data.f of a parsed JSON object
Field(data, f) == IF f \in DOMAIN data THEN data[f] ELSE undefined

Whitespace == {" ", "\t", "\n"}

\* String.prototype.trim
RECURSIVE TrimLeft(_)
TrimLeft(s) ==
  IF s # << >> /\ Head(s) \in Whitespace THEN TrimLeft(Tail(s)) ELSE s

RECURSIVE TrimRight(_)
TrimRight(s) ==
  IF s # << >> /\ s[Len(s)] \in Whitespace
    THEN TrimRight(SubSeq(s, 1, Len(s) - 1)) ELSE s

Trim(s) == TrimRight(TrimLeft(s))

\* lower-casing of the pieces a URL scheme is written with (the /i flag)
Lower(p) ==
  CASE p = "HTTP" -> "http"
    [] p = "HTTPS" -> "https"
    [] p = "Http" -> "http"
    [] OTHER -> p

\* /^https?:\/\/.+/i.test(url)
IsHttpUrl(url) ==
  /\ Len(url) >= 3
  /\ Lower(url[1]) \in {"http", "https"}
  /\ url[2] = "://"

Digits == {"0", "1", "2", "3", "4", "5", "6", "7", "8", "9"}

DigitValue(c) ==
  CASE c = "0" -> 0 [] c = "1" -> 1 [] c = "2" -> 2 [] c = "3" -> 3 [] c = "4" -> 4
    [] c = "5" -> 5 [] c = "6" -> 6 [] c = "7" -> 7 [] c = "8" -> 8 [] c = "9" -> 9

DigitChar(d) ==
  CASE d = 0 -> "0" [] d = 1 -> "1" [] d = 2 -> "2" [] d = 3 -> "3" [] d = 4 -> "4"
    [] d = 5 -> "5" [] d = 6 -> "6" [] d = 7 -> "7" [] d = 8 -> "8" [] d = 9 -> "9"

\* a JavaScript number: NaN, or an integer
NaN == [nan |-> TRUE, v |-> 0]
Num(n) == [nan |-> FALSE, v |-> n]

\* String(n) of an integer
RECURSIVE NatToStr(_)
NatToStr(n) ==
  IF n < 10 THEN <<DigitChar(n)>> ELSE NatToStr(n \div 10) \o <<DigitChar(n % 10)>>

IntToStr(n) == IF n < 0 THEN <<"-">> \o NatToStr(-n) ELSE NatToStr(n)

NumToStr(x) == IF x.nan THEN <<"N", "a", "N">> ELSE IntToStr(x.v)

\* the value of the longest prefix of digits of s, having read `acc` so far
RECURSIVE DigitsValue(_, _)
DigitsValue(s, acc) ==
  IF s # << >> /\ Head(s) \in Digits
    THEN DigitsValue(Tail(s), 10 * acc + DigitValue(Head(s)))
    ELSE acc

\* parseInt(s, 10): leading whitespace, an optional sign, then digits
ParseInt(s) ==
  LET t == TrimLeft(s)
      signed == t # << >> /\ Head(t) \in {"-", "+"}
      d == IF signed THEN Tail(t) ELSE t
  IN  IF d = << >> \/ Head(d) \notin Digits THEN NaN
      ELSE IF signed /\ Head(t) = "-" THEN Num(-DigitsValue(d, 0))
      ELSE Num(DigitsValue(d, 0))

\* x || d for a number x
NumOr(x, d) == IF x.nan \/ x.v = 0 THEN d ELSE x

----------------------------------------------------------------------------
(* Configuration *)

ENDPOINTS ==
  [ login       |-> "/api/v1/usuarios/login",
    loginAlt    |-> "/token",
    register    |-> "/api/v1/usuarios/",
    me          |-> "/api/v1/usuarios/me",
    games       |-> "/api/v1/juegos/",
    reviews     |-> "/api/v1/reviews/",
    gameReviews |-> "/api/v1/juegos/" ]

UploadPath == "/api/v1/uploads/image"

LoginPage == "./login.html"
IndexPage == "./index.html"

FormType == "application/x-www-form-urlencoded"
JsonType == "application/json"

----------------------------------------------------------------------------
(* The backend's users and tokens *)

Users == {"alice", "bob"}
Password == [alice |-> "secret123", bob |-> "hunter2"]

\* what is typed into the login form: valid credentials, a wrong password
\* for an existing user, an identifier nobody registered
Credentials ==
  { <<"alice", "secret123">>, <<"bob", "hunter2">>,
    <<"alice", "wrong">>, <<"ghost", "secret123">> }

\* the names under which login looks for the token in a response
TokenFields == {"access_token", "token", "jwt"}

\* the backends the login fallbacks are written for: the login endpoint takes
\* form and JSON bodies ("both"), rejects a form body with `status` ("json"),
\* or is missing and answers `status`, the form login living at /token
\* ("token"). A successful login response carries the token under each name
\* of `carries`, a wrong password is refused with `refusal`, and the reviews
\* of a game are listed under the game if `nested`
BackendsCarrying(carries) ==
  {[kind |-> k[1], status |-> k[2], carries |-> carries, nested |-> TRUE,
    refusal |-> 401] :
     k \in {<<"both", 200>>} \cup {<<"json", s>> : s \in {415, 422, 400}}
                           \cup {<<"token", s>> : s \in {404, 405}}}

\* the backends that answer { access_token, token_type }
Backends == BackendsCarrying({"access_token"})

\* backends of other makes: the token under any of the names, or under none
AnyBackends == UNION {BackendsCarrying(c) : c \in SUBSET TokenFields}

GoodSig == "sig"
BadSig == "tampered"

\* a token left in localStorage by an earlier session, corrupted
CorruptToken == <<"alice", MaxTime + TTL, BadSig>>

----------------------------------------------------------------------------
(* State *)

VARIABLES
  token,      \* localStorage["token"]: null when absent
  location,   \* the target of the last location.replace
  badge,      \* textContent of #userBadge
  now,        \* the backend's clock
  backend,    \* which flavour of backend API_BASE points to
  net,        \* per handler: the fetch it is awaiting, and its outcome
  loginT,     \* login(): position and locals
  raT,        \* requireAuth(): position and locals
  observing,  \* whether failed logins are being recorded in `seen`
  seen,       \* what completed failed logins looked like from the client
  legacyT,    \* login() of the older auth.js: position and locals
  legacyToken,\* localStorage token of a page that runs the older auth.js
  games,      \* backend: the stored games, by id
  nextGameId, \* backend: the id the next created game gets
  editingGame,\* app.js: let editingGame
  gameForm,   \* #gameForm: the hidden id field and the text fields
  modalShown, \* #modalBackdrop has class "show"
  formError,  \* textContent of #formError
  alertMsg,   \* the text of the last alert()
  saveGameT,  \* saveGame(): position and locals
  delGameT,   \* deleteGame(): position and locals
  reviews,    \* backend: the stored reviews, by id
  nextReviewId, \* backend: the id the next created review gets
  reviewForm, \* #reviewForm: the hidden id, game_id and rating fields
  reviewModalShown, \* #reviewModalBackdrop has class "show"
  reviewFormError,  \* textContent of #reviewFormError
  saveReviewT,\* saveReview(): position and locals
  delReviewT, \* deleteReview(): position and locals
  grid,       \* #grid: the cards on display
  gridOwner,  \* which renderGames call built the cards on display
  rl,         \* reloadGames(): per running call, its position
  cardT       \* renderGames' per-card async callbacks: position and locals

\* what the dashboard's handlers never write
sessionVars == <<location, badge, now, backend, loginT, raT, observing, legacyT, legacyToken, seen>>

\* what the authentication handlers never write
srvVars == <<games, nextGameId, reviews, nextReviewId>>
gameUI == <<editingGame, gameForm, modalShown, formError, saveGameT, delGameT>>
reviewUI ==
  <<reviewForm, reviewModalShown, reviewFormError, saveReviewT, delReviewT>>
gridVars == <<grid, gridOwner, rl, cardT>>
dashVars == <<srvVars, gameUI, reviewUI, gridVars, alertMsg>>

authVars ==
  <<token, location, badge, now, backend, loginT, raT, observing, legacyT, legacyToken, seen, dashVars>>

StartPage == "(start)"

\* the calls of reloadGames that can be running, and the cards of one render
Renders == 1..MaxRenders
Slots == 1..MaxCards

\* the names under which handlers await their fetches
RlKey(r) == "reloadGames" \o ToString(r)
CardKey(r, i) == "card" \o ToString(r) \o "_" \o ToString(i)

UserHandlers ==
  {"login", "legacyLogin", "requireAuth", "saveGame", "deleteGame", "saveReview",
   "deleteReview"}

Handlers ==
  UserHandlers \cup {RlKey(r) : r \in Renders}
               \cup {CardKey(r, i) : r \in Renders, i \in Slots}

NoFetch == [st |-> "none"]

\* fetch(url, opts): the request leaves, the handler suspends
Sent(req) == [st |-> "sent", req |-> req]

NoHeader == << >>

\* "Bearer " + token
Bearer(t) == <<"Bearer ">> \o StringOf(t)

\* Response.ok
Ok(resp) == resp.status >= 200 /\ resp.status <= 299

----------------------------------------------------------------------------
(* auth.js: token helpers *)

getToken == token

setToken_always(t) == token' = t

\* function setToken(t){ if(t){ localStorage.setItem("token", t); } }
setToken(t) == IF Truthy(t) THEN token' = t ELSE token' = token

clearToken_noop == token' = token

clearToken == token' = null

----------------------------------------------------------------------------
(* Backend: token service and auth middleware *)

\* issue(user): a signed token that expires TTL ticks from now
Issue(u) == <<u, now + TTL, GoodSig>>

\* the token a login response carries under the name f: a token of its own
\* under each name
IssueAs(u, f) ==
  CASE f = "access_token" -> Issue(u)
    [] f = "token" -> <<u, now + TTL + 1, GoodSig>>
    [] f = "jwt" -> <<u, now + TTL + 2, GoodSig>>

\* validate(token): signature first, then expiry, then the user still exists
ValidToken(t) ==
  /\ Len(t) = 3
  /\ t[3] = GoodSig
  /\ now < t[2]
  /\ t[1] \in Users

\* the credential of an "Authorization: Bearer <token>" header
Credential(h) == IF Len(h) >= 1 /\ h[1] = "Bearer " THEN Tail(h) ELSE EmptyStr

\* the acting user, or the 401 the middleware answers
Authenticate(h) ==
  IF h = NoHeader THEN [ok |-> FALSE, status |-> 401, detail |-> "Token requerido"]
  ELSE IF ~ValidToken(Credential(h))
    THEN [ok |-> FALSE, status |-> 401, detail |-> "Token invalido"]
  ELSE [ok |-> TRUE, user |-> Credential(h)[1]]

Error(status, detail) == [status |-> status, data |-> [detail |-> detail]]

\* GET /me
ServeMe(req) ==
  LET a == Authenticate(req.auth) IN
  IF a.ok THEN {[status |-> 200, data |-> [username |-> <<a.user>>, email |-> <<a.user, "@x.com">>]]}
  ELSE {Error(a.status, a.detail)}

\* the identifier a login body carries
LoginIdent(req) == IF req.ctype = FormType THEN req.body.username ELSE req.body.email

\* "Prueba 3: Usuario inexistente": 404 o 401
UnknownUserStatus == {404, 401}

\* credential verification
CheckCredentials(req) ==
  LET id == LoginIdent(req) IN
  IF id \notin Users
    THEN {Error(s, "Usuario no encontrado") : s \in UnknownUserStatus}
  ELSE IF req.body.password # Password[id]
    THEN {Error(backend.refusal, "Credenciales invalidas")}
  ELSE {[status |-> 200,
         data |-> [f \in backend.carries \cup {"token_type", "user"} |->
                     CASE f = "token_type" -> <<"bearer">>
                       [] f = "user" -> <<id>>
                       [] OTHER -> IssueAs(id, f)]]}

\* POST to the login endpoint or to /token
ServeLogin(req) ==
  IF req.path = <<ENDPOINTS.login>> THEN
    IF backend.kind = "token" THEN {Error(backend.status, "Not Found")}
    ELSE IF backend.kind = "json" /\ req.ctype = FormType
      THEN {Error(backend.status, "Unprocessable")}
    ELSE CheckCredentials(req)
  ELSE
    IF backend.kind = "token" /\ req.ctype = FormType THEN CheckCredentials(req)
    ELSE {Error(404, "Not Found")}

----------------------------------------------------------------------------
(* The network *)

\* the backend answers a pending request of handler h with one of `resps`
Answer(h, resps) ==
  \E resp \in resps :
    net' = [net EXCEPT ![h] = [st |-> "done", req |-> net[h].req, resp |-> resp]]

IsLoginRoute(req) ==
  req.method = "POST" /\ req.path \in {<<ENDPOINTS.login>>, <<ENDPOINTS.loginAlt>>}

IsMeRoute(req) == req.method = "GET" /\ req.path = <<ENDPOINTS.me>>

\* the backend handles a login or a /me request
ServeAuth ==
  /\ \E h \in Handlers :
       /\ net[h].st = "sent"
       /\ \/ IsLoginRoute(net[h].req) /\ Answer(h, ServeLogin(net[h].req))
          \/ IsMeRoute(net[h].req) /\ Answer(h, ServeMe(net[h].req))
  /\ UNCHANGED authVars

\* a fetch rejects: the request or its response is lost
FetchFail ==
  /\ \E h \in Handlers :
       /\ net[h].st \in {"sent", "done"}
       /\ net' = [net EXCEPT ![h] = [st |-> "failed", req |-> net[h].req]]
  /\ UNCHANGED authVars

\* time passes at the backend
Tick ==
  /\ now < MaxTime
  /\ now' = now + 1
  /\ UNCHANGED <<token, location, badge, backend, net, loginT, raT, observing, legacyT, legacyToken, seen>>
  /\ UNCHANGED dashVars

\* the awaited fetch of handler h has settled
Settled(h) == net[h].st \in {"done", "failed"}

----------------------------------------------------------------------------
(* auth.js: requireAuth *)

RaIdle(outcome) == [pc |-> "idle", outcome |-> outcome]

\* await fetch(API_BASE + ENDPOINTS.me, { headers: { Authorization } })
RequireAuthAsk(t) ==
  /\ net' = [net EXCEPT !["requireAuth"] =
               Sent([method |-> "GET", path |-> <<ENDPOINTS.me>>,
                     ctype |-> "", auth |-> Bearer(t), body |-> << >>])]
  /\ raT' = [pc |-> "me", outcome |-> "none"]
  /\ UNCHANGED location

RequireAuthNoToken_asks(t) == RequireAuthAsk(t)

\* if(!token){ location.replace("./login.html"); return; }
RequireAuthNoToken(t) ==
  /\ location' = LoginPage
  /\ raT' = RaIdle("redirected: no token")
  /\ UNCHANGED net

\* const token = getToken(); without one the redirect, otherwise the /me
\* request
RequireAuthStart ==
  /\ raT.pc = "idle"
  /\ LET t == getToken IN
     IF ~Truthy(t) THEN RequireAuthNoToken(t) ELSE RequireAuthAsk(t)
  /\ UNCHANGED <<token, badge, now, backend, loginT, observing, legacyT, legacyToken, seen>>
  /\ UNCHANGED dashVars

RequireAuthCatch_rethrow ==
  /\ token' = token
  /\ location' = location
  /\ raT' = RaIdle("threw")

\* catch(e){ clearToken(); location.replace("./login.html"); }
RequireAuthCatch ==
  /\ clearToken
  /\ location' = LoginPage
  /\ raT' = RaIdle("redirected: not authorized")

\* the /me fetch settled: throw on a rejected fetch or a non-ok response,
\* otherwise show the user in the badge
RequireAuthResume ==
  /\ raT.pc = "me"
  /\ Settled("requireAuth")
  /\ net' = [net EXCEPT !["requireAuth"] = NoFetch]
  /\ IF net["requireAuth"].st = "failed" \/ ~Ok(net["requireAuth"].resp)
       THEN RequireAuthCatch /\ badge' = badge
       ELSE LET me == net["requireAuth"].resp.data IN
            /\ badge' = OrElse(OrElse(Field(me, "username"), Field(me, "email")),
                               <<"Usuario">>)
            /\ raT' = RaIdle("ok")
            /\ UNCHANGED <<token, location>>
  /\ UNCHANGED <<now, backend, loginT, observing, legacyT, legacyToken, seen>>
  /\ UNCHANGED dashVars

\* function logout(){ clearToken(); location.replace("./index.html"); }
Logout ==
  /\ clearToken
  /\ location' = IndexPage
  /\ UNCHANGED <<badge, now, backend, net, loginT, raT, observing, legacyT, legacyToken, seen>>
  /\ UNCHANGED dashVars

----------------------------------------------------------------------------
(* auth.js (corrected version): login *)

LoginIdle(result) == [pc |-> "idle", result |-> result]

LoginRequest(path, ctype, body) ==
  [method |-> "POST", path |-> <<path>>, ctype |-> ctype, auth |-> NoHeader,
   body |-> body]

\* what a request looks like apart from the credentials it carries
Shape(req) == <<req.path, req.ctype>>

\* which kind of credentials a login was called with
Kind(email, password) ==
  IF email \notin Users THEN "unknown"
  ELSE IF password # Password[email] THEN "wrong password"
  ELSE "valid"

TokenOf_jwtOnly(data) == OrElse(Field(data, "jwt"), null)

\* data.access_token || data.token || data.jwt || null
TokenOf(data) ==
  OrElse(OrElse(OrElse(Field(data, "access_token"), Field(data, "token")),
                Field(data, "jwt")), null)

\* a) form-urlencoded POST to the login endpoint, called with one of `creds`
LoginCall(creds) ==
  /\ loginT.pc = "idle"
  /\ \E c \in creds :
       LET email == c[1]
           password == c[2]
           req == LoginRequest(ENDPOINTS.login, FormType,
                               [username |-> email, password |-> password]) IN
       /\ net' = [net EXCEPT !["login"] = Sent(req)]
       /\ loginT' = [pc |-> "a", email |-> email, password |-> password,
                     resp |-> [status |-> 0], reqs |-> <<Shape(req)>>,
                     result |-> "none"]
  /\ UNCHANGED <<token, location, badge, now, backend, raT, observing, legacyT, legacyToken, seen>>
  /\ UNCHANGED dashVars

\* submit of the login form
LoginStart == LoginCall(Credentials)

\* an awaited fetch rejected: login has no try/catch, its promise rejects
LoginThrow ==
  /\ loginT' = LoginIdle("threw")
  /\ net' = [net EXCEPT !["login"] = NoFetch]
  /\ UNCHANGED <<token, seen>>

\* what the caller of a failed login can tell, and what the server answered
Observation(resp, result) ==
  [kind |-> Kind(loginT.email, loginT.password), reqs |-> loginT.reqs, result |-> result,
   status |-> resp.status, detail |-> Field(resp.data, "detail"),
   stored |-> (token' = token)]

Observe(resp, result) ==
  seen' = IF observing /\ Kind(loginT.email, loginT.password) # "valid"
            THEN seen \cup {Observation(resp, result)}
            ELSE seen

\* if(!resp.ok) return false; ... if(token) setToken(token); return !!token;
LoginFinish(resp) ==
  /\ net' = [net EXCEPT !["login"] = NoFetch]
  /\ IF ~Ok(resp)
       THEN /\ token' = token
            /\ loginT' = LoginIdle("false")
            /\ Observe(resp, "false")
       ELSE LET t == TokenOf(resp.data) IN
            /\ setToken(t)
            /\ loginT' = LoginIdle(IF Truthy(t) THEN "true" ELSE "false")
            /\ Observe(resp, IF Truthy(t) THEN "true" ELSE "false")

\* the next request of the fallback chain leaves
LoginSend(pc, req, resp) ==
  /\ net' = [net EXCEPT !["login"] = Sent(req)]
  /\ loginT' = [loginT EXCEPT !.pc = pc, !.resp = resp,
                              !.reqs = Append(@, Shape(req))]
  /\ UNCHANGED <<token, seen>>

TriesAlt(resp) == ~Ok(resp) /\ resp.status \in {404, 405}

TriesJson_always(resp) == ~Ok(resp)

TriesJson(resp) == ~Ok(resp) /\ resp.status \in {415, 422, 400}

\* c) JSON POST to the login endpoint, or the end of login
LoginJsonOrFinish(resp) ==
  IF TriesJson(resp)
    THEN LoginSend("c", LoginRequest(ENDPOINTS.login, JsonType,
                          [email |-> loginT.email, password |-> loginT.password]), resp)
    ELSE LoginFinish(resp)

\* a) settled. b) form-urlencoded POST to /token when a) was 404 or 405
LoginAfterForm ==
  /\ loginT.pc = "a"
  /\ Settled("login")
  /\ IF net["login"].st = "failed" THEN LoginThrow
     ELSE LET resp == net["login"].resp IN
          IF TriesAlt(resp)
            THEN LoginSend("b", LoginRequest(ENDPOINTS.loginAlt, FormType,
                            [username |-> loginT.email, password |-> loginT.password]),
                           resp)
            ELSE LoginJsonOrFinish(resp)
  /\ UNCHANGED <<location, badge, now, backend, raT, observing, legacyT, legacyToken>>
  /\ UNCHANGED dashVars

\* b) settled: if(respAlt.ok) resp = respAlt
LoginAfterAlt ==
  /\ loginT.pc = "b"
  /\ Settled("login")
  /\ IF net["login"].st = "failed" THEN LoginThrow
     ELSE LET respAlt == net["login"].resp IN
          LoginJsonOrFinish(IF Ok(respAlt) THEN respAlt ELSE loginT.resp)
  /\ UNCHANGED <<location, badge, now, backend, raT, observing, legacyT, legacyToken>>
  /\ UNCHANGED dashVars

\* c) settled: if(respJson.ok) resp = respJson
LoginAfterJson ==
  /\ loginT.pc = "c"
  /\ Settled("login")
  /\ IF net["login"].st = "failed" THEN LoginThrow
     ELSE LET respJson == net["login"].resp IN
          LoginFinish(IF Ok(respJson) THEN respJson ELSE loginT.resp)
  /\ UNCHANGED <<location, badge, now, backend, raT, observing, legacyT, legacyToken>>
  /\ UNCHANGED dashVars

----------------------------------------------------------------------------
(* auth.js (older version): login *)

\* login() is not running; `args` is what the login form is filled with
LegacyIdle(result, args) == [pc |-> "idle", result |-> result, args |-> args]

LegacyTokenOf_reversed(data) ==
  OrElse(OrElse(OrElse(Field(data, "jwt"), Field(data, "token")),
                Field(data, "access_token")), null)

\* data.access_token || data.token || data.jwt || null
LegacyTokenOf(data) ==
  OrElse(OrElse(OrElse(Field(data, "access_token"), Field(data, "token")),
                Field(data, "jwt")), null)

\* function setToken(t){ if(t){ localStorage.setItem("token", t); } }
LegacySetToken(t) == IF Truthy(t) THEN legacyToken' = t ELSE legacyToken' = legacyToken

\* login(email, password): the JSON POST to the login endpoint
LegacyLoginStart ==
  /\ legacyT.pc = "idle"
  /\ legacyT.result = "none"
  /\ Len(legacyT.args) = 2
  /\ net' = [net EXCEPT !["legacyLogin"] =
               Sent(LoginRequest(ENDPOINTS.login, JsonType,
                                 [email |-> legacyT.args[1],
                                  password |-> legacyT.args[2]]))]
  /\ legacyT' = [legacyT EXCEPT !.pc = "json"]
  /\ UNCHANGED <<token, location, badge, now, backend, loginT, raT, observing,
                 legacyToken, seen>>
  /\ UNCHANGED dashVars

\* if(!resp.ok) return false; ... if(token) setToken(token); return !!token;
LegacyLoginResume ==
  /\ legacyT.pc = "json"
  /\ Settled("legacyLogin")
  /\ net' = [net EXCEPT !["legacyLogin"] = NoFetch]
  /\ IF net["legacyLogin"].st = "failed"
       THEN /\ legacyT' = LegacyIdle("threw", legacyT.args)
            /\ UNCHANGED legacyToken
       ELSE LET resp == net["legacyLogin"].resp IN
            IF ~Ok(resp)
              THEN /\ legacyT' = LegacyIdle("false", legacyT.args)
                   /\ UNCHANGED legacyToken
              ELSE LET t == LegacyTokenOf(resp.data) IN
                   /\ LegacySetToken(t)
                   /\ legacyT' = LegacyIdle(IF Truthy(t) THEN "true" ELSE "false",
                                            legacyT.args)
  /\ UNCHANGED <<token, location, badge, now, backend, loginT, raT, observing, seen>>
  /\ UNCHANGED dashVars

----------------------------------------------------------------------------
(* Backend: games, behind the ownership policy *)

GameFields == {"titulo", "categoria", "descripcion", "portada_url"}

\* the part of a path after the games prefix names one game
IsIdPath(rest) == rest # << >> /\ \A k \in 1..Len(rest) : rest[k] \in Digits

IsGamesCollection(req) ==
  /\ Head(req.path) = ENDPOINTS.games
  /\ (Len(req.path) > 1 => req.path[2] = "?q=")

IsGameItem(req) ==
  Head(req.path) = ENDPOINTS.games /\ IsIdPath(Tail(req.path))

IsGamesRoute(req) ==
  \/ IsGamesCollection(req) /\ req.method \in {"GET", "POST"}
  \/ IsGameItem(req) /\ req.method \in {"PUT", "DELETE"}

\* the games as the list endpoint returns them: an array ordered by id
RECURSIVE GameList(_)
GameList(ids) ==
  IF ids = {} THEN << >>
  ELSE LET m == CHOOSE x \in ids : \A y \in ids : x <= y
       IN  <<games[m]>> \o GameList(ids \ {m})

\* a stored game with the client's fields written over it
WithData(g, body) ==
  [g EXCEPT !.titulo = body.titulo, !.categoria = body.categoria,
            !.descripcion = body.descripcion, !.portada_url = body.portada_url]

NewGame(id, owner, body) ==
  [id |-> id, owner |-> owner, titulo |-> body.titulo, categoria |-> body.categoria,
   descripcion |-> body.descripcion, portada_url |-> body.portada_url]

can_mutate_anyone(actor, resource) == TRUE

\* Ownership Policy: resource.owner == actor_user.identifier
can_mutate(actor, resource) == resource.owner = actor

Unchanged(resp) == [resp |-> resp, games |-> games, next |-> nextGameId]

\* GET list, POST create, PUT update, DELETE: the response and the new store
HandleGames(req) ==
  IF req.method = "GET" THEN Unchanged([status |-> 200, data |-> GameList(DOMAIN games)])
  ELSE
    LET a == Authenticate(req.auth) IN
    IF ~a.ok THEN Unchanged(Error(a.status, a.detail))
    ELSE IF req.method = "POST" THEN
      [resp |-> [status |-> 201, data |-> NewGame(nextGameId, a.user, req.body)],
       games |-> [i \in DOMAIN games \cup {nextGameId} |->
                    IF i = nextGameId THEN NewGame(nextGameId, a.user, req.body)
                    ELSE games[i]],
       next |-> nextGameId + 1]
    ELSE
      LET id == ParseInt(Tail(req.path)).v IN
      IF id \notin DOMAIN games THEN Unchanged(Error(404, "Not Found"))
      ELSE IF ~can_mutate(a.user, games[id]) THEN Unchanged(Error(403, "Forbidden"))
      ELSE IF req.method = "PUT" THEN
        [resp |-> [status |-> 200, data |-> WithData(games[id], req.body)],
         games |-> [games EXCEPT ![id] = WithData(@, req.body)],
         next |-> nextGameId]
      ELSE
        [resp |-> [status |-> 204, data |-> [detail |-> ""]],
         games |-> [i \in DOMAIN games \ {id} |-> games[i]],
         next |-> nextGameId]

\* the backend handles a request on the games routes
ServeGames ==
  /\ \E h \in Handlers :
       /\ net[h].st = "sent"
       /\ IsGamesRoute(net[h].req)
       /\ net[h].req.method = "POST" => nextGameId <= MaxGames
       /\ LET out == HandleGames(net[h].req) IN
          /\ Answer(h, {out.resp})
          /\ games' = out.games
          /\ nextGameId' = out.next
          \* a review's game reference must point to an existing game
          /\ reviews' = [i \in {j \in DOMAIN reviews :
                                  reviews[j].game_id \in DOMAIN out.games} |->
                           reviews[i]]
  /\ UNCHANGED <<token, sessionVars, nextReviewId, gameUI, reviewUI, gridVars,
                 alertMsg>>

----------------------------------------------------------------------------
(* Backend: reviews and the image upload *)

\* /juegos/<id>/reviews
IsNestedReviews(req) ==
  /\ Head(req.path) = ENDPOINTS.gameReviews
  /\ Len(req.path) >= 3
  /\ req.path[Len(req.path)] = "/reviews"

\* the <id> of /juegos/<id>/reviews
NestedId(req) == SubSeq(req.path, 2, Len(req.path) - 1)

IsFlatReviews(req) ==
  /\ Head(req.path) = ENDPOINTS.reviews
  /\ (Len(req.path) > 1 => req.path[2] = "?game_id=")

IsReviewItem(req) ==
  Head(req.path) = ENDPOINTS.reviews /\ IsIdPath(Tail(req.path))

IsUpload(req) == req.path = <<UploadPath>> /\ req.method = "POST"

IsReviewsRoute(req) ==
  \/ IsNestedReviews(req) /\ req.method \in {"GET", "POST"}
  \/ IsFlatReviews(req) /\ req.method \in {"GET", "POST"}
  \/ IsReviewItem(req) /\ req.method \in {"PUT", "DELETE"}
  \/ IsUpload(req)

\* the reviews of one game as a listing returns them: an array ordered by id
RECURSIVE ReviewList(_)
ReviewList(ids) ==
  IF ids = {} THEN << >>
  ELSE LET m == CHOOSE x \in ids : \A y \in ids : x <= y
       IN  <<reviews[m]>> \o ReviewList(ids \ {m})

ReviewsOf(gameId) == ReviewList({i \in DOMAIN reviews : reviews[i].game_id = gameId})

NewReview(id, owner, gameId, body) ==
  [id |-> id, owner |-> owner, username |-> <<owner>>, game_id |-> gameId,
   titulo |-> body.titulo, imagen_url |-> body.imagen_url, rating |-> body.rating,
   contenido |-> body.contenido]

Same(resps) == [resps |-> resps, reviews |-> reviews, next |-> nextReviewId]

\* the URL the blob store gives an uploaded image
UploadedUrl == <<"https", "://", "cdn/1.png">>

\* POST of an image: the blob store returns { url }, or fails
HandleUpload(req) ==
  LET a == Authenticate(req.auth) IN
  IF ~a.ok THEN {Error(a.status, a.detail)}
  ELSE { [status |-> 200, data |-> [url |-> UploadedUrl]],
         [status |-> 200, data |-> [url |-> EmptyStr]],
         Error(413, "Payload Too Large") }

\* create a review of the game `gameText` names
CreateReview(req, gameText) ==
  LET a == Authenticate(req.auth)
      gameId == ParseInt(gameText) IN
  IF ~a.ok THEN Same({Error(a.status, a.detail)})
  ELSE IF gameId.nan \/ gameId.v \notin DOMAIN games THEN Same({Error(404, "Not Found")})
  ELSE IF req.body.rating \notin 1..5 THEN Same({Error(422, "Unprocessable")})
  ELSE [resps |-> {[status |-> 201,
                    data |-> NewReview(nextReviewId, a.user, gameId.v, req.body)]},
        reviews |-> [i \in DOMAIN reviews \cup {nextReviewId} |->
                       IF i = nextReviewId
                         THEN NewReview(nextReviewId, a.user, gameId.v, req.body)
                         ELSE reviews[i]],
        next |-> nextReviewId + 1]

\* list the reviews of the game `gameText` names
ListReviews(gameText, strict) ==
  LET gameId == ParseInt(gameText) IN
  IF gameId.nan THEN Same({Error(422, "Unprocessable")})
  ELSE IF strict /\ gameId.v \notin DOMAIN games THEN Same({Error(404, "Not Found")})
  ELSE Same({[status |-> 200, data |-> ReviewsOf(gameId.v)]})

\* PUT or DELETE of one review, behind the ownership policy
MutateReview(req) ==
  LET a == Authenticate(req.auth)
      id == ParseInt(Tail(req.path)).v IN
  IF ~a.ok THEN Same({Error(a.status, a.detail)})
  ELSE IF id \notin DOMAIN reviews THEN Same({Error(404, "Not Found")})
  ELSE IF ~can_mutate(a.user, reviews[id]) THEN Same({Error(403, "Forbidden")})
  ELSE IF req.method = "DELETE" THEN
    [resps |-> {[status |-> 204, data |-> [detail |-> ""]]},
     reviews |-> [i \in DOMAIN reviews \ {id} |-> reviews[i]],
     next |-> nextReviewId]
  ELSE IF req.body.rating \notin 1..5 THEN Same({Error(422, "Unprocessable")})
  ELSE
    LET r == [reviews[id] EXCEPT !.titulo = req.body.titulo,
                                 !.imagen_url = req.body.imagen_url,
                                 !.rating = req.body.rating,
                                 !.contenido = req.body.contenido] IN
    [resps |-> {[status |-> 200, data |-> r]},
     reviews |-> [reviews EXCEPT ![id] = r],
     next |-> nextReviewId]

HandleReviews(req) ==
  IF IsUpload(req) THEN Same(HandleUpload(req))
  ELSE IF IsReviewItem(req) THEN MutateReview(req)
  ELSE IF IsNestedReviews(req) THEN
    IF ~backend.nested THEN Same({Error(404, "Not Found")})
    ELSE IF req.method = "GET" THEN ListReviews(NestedId(req), TRUE)
    ELSE CreateReview(req, NestedId(req))
  ELSE
    IF req.method = "GET" THEN ListReviews(SubSeq(req.path, 3, Len(req.path)), FALSE)
    ELSE CreateReview(req, req.body.game_id)

\* the backend handles a request on the review routes or an upload
ServeReviews ==
  /\ \E h \in Handlers :
       /\ net[h].st = "sent"
       /\ IsReviewsRoute(net[h].req)
       /\ LET out == HandleReviews(net[h].req) IN
          /\ out.next > nextReviewId => nextReviewId <= MaxReviews
          /\ Answer(h, out.resps)
          /\ reviews' = out.reviews
          /\ nextReviewId' = out.next
  /\ UNCHANGED <<token, sessionVars, games, nextGameId, gameUI, reviewUI, gridVars,
                 alertMsg>>

----------------------------------------------------------------------------
(* app.js: the grid and reloadGames *)

\* how many handlers started by the user are awaiting a fetch
Pending == Cardinality({h \in UserHandlers : net[h].st # "none"})

\* the user can start another handler
CanStart == Pending < MaxPending

\* what is typed into the search box
Queries == {EmptyStr, <<"doom">>}

\* a call of reloadGames and the callbacks of its render are all over
Free(r) == rl[r] = "idle" /\ \A i \in Slots : cardT[r][i].pc = "idle"

\* g.id || g._id || g.uuid, as text; `none` when all are missing
IdText(o, none) == IF o.id # 0 THEN IntToStr(o.id) ELSE none

\* fetchGames(query): the list request, with Authorization only if a token is stored
fetchGames_alwaysAuth(q) ==
  [method |-> "GET",
   path |-> <<ENDPOINTS.games>> \o (IF Truthy(q) THEN <<"?q=">> \o q ELSE << >>),
   ctype |-> "", auth |-> Bearer(getToken), body |-> << >>]

fetchGames(q) ==
  [method |-> "GET",
   path |-> <<ENDPOINTS.games>> \o (IF Truthy(q) THEN <<"?q=">> \o q ELSE << >>),
   ctype |-> "",
   auth |-> IF Truthy(getToken) THEN Bearer(getToken) ELSE NoHeader,
   body |-> << >>]

\* reloadGames() is called by handler `self` as its last statement (self is
\* "" for the load and keydown listeners): self's fetch is over, and the list
\* request of a free call leaves
CallReload(self) ==
  \E r \in Renders, q \in Queries :
    /\ Free(r)
    /\ net' = [h \in Handlers |->
                 IF h = RlKey(r) THEN Sent(fetchGames(q))
                 ELSE IF h = self THEN NoFetch
                 ELSE net[h]]
    /\ rl' = [rl EXCEPT ![r] = "fetch"]

\* window load, or Enter in the search box
ReloadGames ==
  /\ CallReload("")
  /\ UNCHANGED <<token, sessionVars, srvVars, gameUI, reviewUI, grid, gridOwner,
                 cardT, alertMsg>>

\* the review listing of one game: GET /juegos/<id>/reviews
NestedListRequest(gameId) ==
  [method |-> "GET",
   path |-> <<ENDPOINTS.gameReviews>> \o StringOf(gameId) \o <<"/reviews">>,
   ctype |-> "", auth |-> NoHeader, body |-> << >>]

\* GET /reviews/?game_id=<id>
FlatListRequest(gameId) ==
  [method |-> "GET",
   path |-> <<ENDPOINTS.reviews, "?game_id=">> \o StringOf(gameId),
   ctype |-> "", auth |-> NoHeader, body |-> << >>]

\* _renderGames_original: one card per item, with the edit and delete buttons
RenderOriginal(items) ==
  [i \in 1..Len(items) |-> [g |-> items[i], buttons |-> 0, sections |-> << >>]]

\* the patched renderGames up to the first await of each callback: every card
\* gets its "Resenar" button, and the review listing of its game is requested
RenderCards(items) ==
  [i \in 1..Len(items) |-> [RenderOriginal(items)[i] EXCEPT !.buttons = @ + 1]]

CardIdle == [pc |-> "idle", gameId |-> EmptyStr]

\* the list request settled: alert on a failure, render on success
ReloadResume ==
  \E r \in Renders :
    /\ rl[r] = "fetch"
    /\ Settled(RlKey(r))
    /\ rl' = [rl EXCEPT ![r] = "idle"]
    /\ IF net[RlKey(r)].st = "failed" \/ ~Ok(net[RlKey(r)].resp)
         THEN /\ alertMsg' = IF net[RlKey(r)].st = "failed" THEN "Failed to fetch"
                             ELSE "No se pudieron cargar los juegos"
              /\ net' = [net EXCEPT ![RlKey(r)] = NoFetch]
              /\ UNCHANGED <<grid, gridOwner, cardT>>
         ELSE LET items == net[RlKey(r)].resp.data IN
              /\ grid' = RenderCards(items)
              /\ gridOwner' = r
              /\ cardT' = [cardT EXCEPT ![r] =
                             [i \in Slots |->
                                IF i <= Len(items)
                                  THEN [pc |-> "nested",
                                        gameId |-> IdText(items[i], undefined)]
                                  ELSE CardIdle]]
              /\ net' = [h \in Handlers |->
                           IF h = RlKey(r) THEN NoFetch
                           ELSE IF \E i \in 1..Len(items) : h = CardKey(r, i)
                             THEN LET i == CHOOSE i \in 1..Len(items) : h = CardKey(r, i)
                                  IN  Sent(NestedListRequest(IdText(items[i], undefined)))
                           ELSE net[h]]
              /\ UNCHANGED alertMsg
    /\ UNCHANGED <<token, sessionVars, srvVars, gameUI, reviewUI>>

AppendSection_always(r, i, list) ==
  /\ grid' = IF i \in DOMAIN grid
               THEN [grid EXCEPT ![i].sections = Append(@, list)]
               ELSE grid
  /\ cardT' = [cardT EXCEPT ![r][i] = CardIdle]
  /\ net' = [net EXCEPT ![CardKey(r, i)] = NoFetch]

\* card.appendChild(wrap): the section shows only if the card is still on display
AppendSection(r, i, list) ==
  /\ grid' = IF gridOwner = r
               THEN [grid EXCEPT ![i].sections = Append(@, list)]
               ELSE grid
  /\ cardT' = [cardT EXCEPT ![r][i] = CardIdle]
  /\ net' = [net EXCEPT ![CardKey(r, i)] = NoFetch]

\* a callback of the render resumes: the nested listing settled (on a non-ok
\* answer the flat listing is requested), or the flat listing settled
CardResume ==
  \E r \in Renders, i \in Slots :
    /\ cardT[r][i].pc # "idle"
    /\ Settled(CardKey(r, i))
    /\ IF net[CardKey(r, i)].st = "failed"
         THEN \* the callback's promise rejects, nobody handles it
              /\ cardT' = [cardT EXCEPT ![r][i] = CardIdle]
              /\ net' = [net EXCEPT ![CardKey(r, i)] = NoFetch]
              /\ UNCHANGED grid
         ELSE LET resp == net[CardKey(r, i)].resp IN
              IF cardT[r][i].pc = "nested" /\ ~Ok(resp)
                THEN /\ net' = [net EXCEPT ![CardKey(r, i)] =
                                  Sent(FlatListRequest(cardT[r][i].gameId))]
                     /\ cardT' = [cardT EXCEPT ![r][i].pc = "flat"]
                     /\ UNCHANGED grid
                ELSE AppendSection(r, i, IF Ok(resp) THEN resp.data ELSE << >>)
    /\ UNCHANGED <<token, sessionVars, srvVars, gameUI, reviewUI, gridOwner, rl,
                   alertMsg>>

----------------------------------------------------------------------------
(* app.js: the game modal, saveGame, deleteGame *)

EmptyGameForm ==
  [id |-> EmptyStr, titulo |-> EmptyStr, categoria |-> EmptyStr,
   descripcion |-> EmptyStr, portada_url |-> EmptyStr]

\* editingGame holds null, or a reference to a game object
NoGame == << >>
Ref(g) == <<g>>

\* openCreate(): the "new game" button
OpenCreate ==
  /\ editingGame' = NoGame
  /\ gameForm' = EmptyGameForm
  /\ formError' = ""
  /\ modalShown' = TRUE
  /\ UNCHANGED <<token, net, sessionVars, srvVars, saveGameT, delGameT, reviewUI,
                 gridVars, alertMsg>>

\* openEdit(g): the edit button of a card on display
OpenEdit ==
  \E i \in DOMAIN grid :
    LET g == grid[i].g IN
    /\ editingGame' = Ref(g)
    /\ gameForm' = [id |-> IdText(g, EmptyStr),
                    titulo |-> OrElse(OrElse(g.titulo, Field(g, "nombre")), EmptyStr),
                    categoria |-> OrElse(OrElse(g.categoria, Field(g, "genero")), EmptyStr),
                    descripcion |-> OrElse(g.descripcion, EmptyStr),
                    portada_url |-> OrElse(g.portada_url, EmptyStr)]
    /\ formError' = ""
    /\ modalShown' = TRUE
    /\ UNCHANGED <<token, net, sessionVars, srvVars, saveGameT, delGameT, reviewUI,
                   gridVars, alertMsg>>

\* what the user types into the text fields of the game form
GameInputs ==
  { [titulo |-> <<"Doom">>, categoria |-> <<"FPS">>, descripcion |-> << >>,
     portada_url |-> << >>],
    [titulo |-> <<" ", "Quake">>, categoria |-> <<"FPS", " ">>, descripcion |-> << >>,
     portada_url |-> <<"HTTPS", "://", "img">>],
    [titulo |-> <<" ">>, categoria |-> <<"FPS">>, descripcion |-> << >>,
     portada_url |-> << >>],
    [titulo |-> <<"Doom">>, categoria |-> <<"FPS">>, descripcion |-> << >>,
     portada_url |-> <<"img.png">>] }

\* the text fields of a form
TextOf(form) ==
  [titulo |-> form.titulo, categoria |-> form.categoria,
   descripcion |-> form.descripcion, portada_url |-> form.portada_url]

GameData_withOwner(f) ==
  [titulo |-> Trim(f.titulo), categoria |-> Trim(f.categoria),
   descripcion |-> Trim(f.descripcion), portada_url |-> Trim(f.portada_url),
   owner |-> "alice"]

\* const data = { titulo: f.titulo.value.trim(), ... }
GameData(f) ==
  [titulo |-> Trim(f.titulo), categoria |-> Trim(f.categoria),
   descripcion |-> Trim(f.descripcion), portada_url |-> Trim(f.portada_url)]

GameInvalid_anyUrl(data) ==
  IF ~Truthy(data.titulo) \/ ~Truthy(data.categoria)
    THEN "Titulo y categoria son obligatorios."
  ELSE ""

\* the validation message of saveGame, "" when the data pass
GameInvalid(data) ==
  IF ~Truthy(data.titulo) \/ ~Truthy(data.categoria)
    THEN "Titulo y categoria son obligatorios."
  ELSE IF Truthy(data.portada_url) /\ ~IsHttpUrl(data.portada_url)
    THEN "La URL de portada debe empezar por http(s)://"
  ELSE ""

\* fetch(url, { method, headers: { Content-Type: json, Authorization }, body })
SaveRequest(method, path, tok, data) ==
  [method |-> method, path |-> path, ctype |-> JsonType, auth |-> Bearer(tok),
   body |-> data]

DeleteRequest(path, tok) ==
  [method |-> "DELETE", path |-> path, ctype |-> "", auth |-> Bearer(tok),
   body |-> << >>]

\* the PUT or POST saveGame sends
SaveGameRequest(f, tok) ==
  IF editingGame # NoGame /\ Truthy(f.id)
    THEN SaveRequest("PUT", <<ENDPOINTS.games>> \o f.id, tok, GameData(f))
    ELSE SaveRequest("POST", <<ENDPOINTS.games>>, tok, GameData(f))

\* saveGame(ev): the user having typed one of `inputs` into the text fields,
\* or left them as they are
SaveGameCall(inputs) ==
  /\ modalShown
  /\ saveGameT = "idle"
  /\ CanStart
  /\ \E typed \in inputs \cup {TextOf(gameForm)} :
       LET f == [id |-> gameForm.id, titulo |-> typed.titulo,
                 categoria |-> typed.categoria, descripcion |-> typed.descripcion,
                 portada_url |-> typed.portada_url] IN
       /\ gameForm' = f
       /\ IF GameInvalid(GameData(f)) # ""
            THEN /\ formError' = GameInvalid(GameData(f))
                 /\ UNCHANGED <<net, saveGameT>>
            ELSE /\ net' = [net EXCEPT !["saveGame"] =
                              Sent(SaveGameRequest(f, getToken))]
                 /\ saveGameT' = "saving"
                 /\ UNCHANGED formError
  /\ UNCHANGED <<token, sessionVars, srvVars, editingGame, modalShown, delGameT,
                 reviewUI, gridVars, alertMsg>>

\* submit of #gameForm
SaveGameSubmit == SaveGameCall(GameInputs)

\* await resp.text() || fallback
TextOr(resp, fallback) ==
  IF Field(resp.data, "detail") \in {undefined, ""} THEN fallback
  ELSE resp.data.detail

\* the save request settled: the error text on a failure, otherwise
\* closeModal(); reloadGames()
SaveGameResume ==
  /\ saveGameT = "saving"
  /\ Settled("saveGame")
  /\ saveGameT' = "idle"
  /\ IF net["saveGame"].st = "failed" \/ ~Ok(net["saveGame"].resp)
       THEN /\ formError' = IF net["saveGame"].st = "failed" THEN "Failed to fetch"
                            ELSE TextOr(net["saveGame"].resp, "Error guardando el juego")
            /\ net' = [net EXCEPT !["saveGame"] = NoFetch]
            /\ UNCHANGED <<modalShown, rl>>
       ELSE /\ modalShown' = FALSE
            /\ CallReload("saveGame")
            /\ UNCHANGED formError
  /\ UNCHANGED <<token, sessionVars, srvVars, editingGame, gameForm, delGameT,
                 reviewUI, grid, gridOwner, cardT, alertMsg>>

\* deleteGame(g): the delete button of a card on display; nothing happens
\* unless the user confirms
DeleteGameStart ==
  /\ delGameT = "idle"
  /\ CanStart
  /\ \E i \in DOMAIN grid, confirmed \in BOOLEAN :
       IF ~confirmed THEN UNCHANGED <<net, delGameT>>
       ELSE /\ net' = [net EXCEPT !["deleteGame"] =
                         Sent(DeleteRequest(<<ENDPOINTS.games>>
                                              \o IdText(grid[i].g, StringOf(undefined)),
                                            getToken))]
            /\ delGameT' = "deleting"
  /\ UNCHANGED <<token, sessionVars, srvVars, editingGame, gameForm, modalShown,
                 formError, saveGameT, reviewUI, gridVars, alertMsg>>

\* the delete request settled: an alert on a failure, otherwise reloadGames()
DeleteGameResume ==
  /\ delGameT = "deleting"
  /\ Settled("deleteGame")
  /\ delGameT' = "idle"
  /\ IF net["deleteGame"].st = "failed" \/ ~Ok(net["deleteGame"].resp)
       THEN /\ alertMsg' = "Error al eliminar (ver consola)"
            /\ net' = [net EXCEPT !["deleteGame"] = NoFetch]
            /\ UNCHANGED rl
       ELSE /\ CallReload("deleteGame")
            /\ UNCHANGED alertMsg
  /\ UNCHANGED <<token, sessionVars, srvVars, editingGame, gameForm, modalShown,
                 formError, saveGameT, reviewUI, grid, gridOwner, cardT>>

----------------------------------------------------------------------------
(* reviews.js: the review modal, the stars, saveReview, deleteReview *)

\* the data-v values of the stars of #starsInput
StarValues == 1..5

\* syncStars(v): how many stars are lit
syncStars(x) == IF x.nan THEN 0 ELSE Cardinality({val \in StarValues : val <= x.v})

\* the value attributes the markup gives the rating field
RatingDefaults == {EmptyStr, <<"5">>}

\* f.reset(): every field back to the value the markup gives it
ResetReviewForm(default) ==
  [id |-> EmptyStr, game_id |-> EmptyStr, titulo |-> EmptyStr,
   imagen_url |-> EmptyStr, rating |-> default, contenido |-> EmptyStr,
   stars |-> 0]

\* openCreateReview(game): the "Resenar" button of a card on display
OpenCreateReview ==
  \E i \in DOMAIN grid :
    /\ grid[i].buttons > 0
    /\ reviewForm' = [ResetReviewForm(EmptyStr) EXCEPT
                        !.game_id = IdText(grid[i].g, EmptyStr),
                        !.rating = <<"5">>,
                        !.stars = syncStars(Num(5))]
    /\ reviewFormError' = ""
    /\ reviewModalShown' = TRUE
    /\ UNCHANGED <<token, net, sessionVars, srvVars, gameUI, saveReviewT, delReviewT,
                   gridVars, alertMsg>>

\* String(review.rating || 5)
EditRating(review) == NumToStr(NumOr(Num(review.rating), Num(5)))

\* openEditReview(review): the edit button of a review on display
OpenEditReview ==
  \E i \in DOMAIN grid :
    \E k \in DOMAIN grid[i].sections :
      \E j \in DOMAIN grid[i].sections[k] :
        LET review == grid[i].sections[k][j] IN
        /\ reviewForm' = [reviewForm EXCEPT
                            !.id = IdText(review, EmptyStr),
                            !.game_id = IF review.game_id # 0
                                          THEN IntToStr(review.game_id) ELSE EmptyStr,
                            !.titulo = OrElse(review.titulo, EmptyStr),
                            !.imagen_url = OrElse(review.imagen_url, EmptyStr),
                            !.rating = EditRating(review),
                            !.contenido = OrElse(review.contenido, EmptyStr),
                            !.stars = syncStars(ParseInt(EditRating(review)))]
        /\ reviewFormError' = ""
        /\ reviewModalShown' = TRUE
        /\ UNCHANGED <<token, net, sessionVars, srvVars, gameUI, saveReviewT,
                       delReviewT, gridVars, alertMsg>>

StarRating_next(v) == NumToStr(Num(v + 1))

\* String(v) of the clicked star's data-v
StarRating(v) == NumToStr(Num(v))

\* a click on a star of #starsInput
StarClick ==
  /\ reviewModalShown
  /\ \E v \in StarValues :
       reviewForm' = [reviewForm EXCEPT !.rating = StarRating(v),
                                        !.stars = syncStars(Num(v))]
  /\ UNCHANGED <<token, net, sessionVars, srvVars, gameUI, reviewModalShown,
                 reviewFormError, saveReviewT, delReviewT, gridVars, alertMsg>>

\* Escape closes whichever modal is open
EscapeKey ==
  /\ modalShown \/ reviewModalShown
  /\ modalShown' = FALSE
  /\ reviewModalShown' = FALSE
  /\ UNCHANGED <<token, net, sessionVars, srvVars, editingGame, gameForm, formError,
                 saveGameT, delGameT, reviewForm, reviewFormError, saveReviewT,
                 delReviewT, gridVars, alertMsg>>

\* what the user types into the text fields of the review form
ReviewInputs ==
  { [titulo |-> <<"Great">>, imagen_url |-> << >>, contenido |-> <<"fun">>],
    [titulo |-> <<"Great", " ">>, imagen_url |-> <<"http", "://", "pic">>,
     contenido |-> <<"fun">>],
    [titulo |-> <<"Great">>, imagen_url |-> << >>, contenido |-> <<" ">>],
    [titulo |-> <<"Great">>, imagen_url |-> <<"pic.png">>, contenido |-> <<"fun">>] }

ReviewTextOf(f) ==
  [titulo |-> f.titulo, imagen_url |-> f.imagen_url, contenido |-> f.contenido]

\* parseInt(f.rating.value, 10) || 5
ReviewRating(f) == NumOr(ParseInt(f.rating), Num(5)).v

\* const data = { titulo, imagen_url, rating, contenido, game_id }
ReviewData(f) ==
  [titulo |-> Trim(f.titulo), imagen_url |-> Trim(f.imagen_url),
   rating |-> ReviewRating(f), contenido |-> Trim(f.contenido),
   game_id |-> Trim(f.game_id)]

\* the validation message of saveReview, "" when the data pass
ReviewInvalid(data) ==
  IF ~Truthy(data.titulo) \/ ~Truthy(data.contenido) \/ ~Truthy(data.game_id)
    THEN "Titulo, contenido y juego son obligatorios."
  ELSE IF Truthy(data.imagen_url) /\ ~IsHttpUrl(data.imagen_url)
    THEN "La URL de imagen debe empezar por http(s):// (o sube archivo)."
  ELSE ""

UploadRequest(tok) ==
  [method |-> "POST", path |-> <<UploadPath>>, ctype |-> "multipart/form-data",
   auth |-> Bearer(tok), body |-> [file |-> "imagen_file"]]

SaveReviewIdle == [pc |-> "idle"]

\* the PUT, or the nested POST, saveReview sends once the image is dealt with;
\* `file` is fileInput.files[0], as a boolean, and `submitted` what f.id.value
\* was when the form was submitted
SendReview(tok, data, file, submitted) ==
  IF Truthy(reviewForm.id)
    THEN /\ net' = [net EXCEPT !["saveReview"] =
                      Sent(SaveRequest("PUT", <<ENDPOINTS.reviews>> \o reviewForm.id,
                                       tok, data))]
         /\ saveReviewT' = [pc |-> "put", token |-> tok, data |-> data,
                             file |-> file, submitted |-> submitted]
    ELSE /\ net' = [net EXCEPT !["saveReview"] =
                      Sent(SaveRequest("POST",
                             <<ENDPOINTS.gameReviews>> \o data.game_id \o <<"/reviews">>,
                             tok, data))]
         /\ saveReviewT' = [pc |-> "nested", token |-> tok, data |-> data,
                             file |-> file, submitted |-> submitted]

\* saveReview(ev): the user having typed one of `inputs` into the text fields,
\* or left them as they are, and chosen a file or not as `files` allows
SaveReviewCall(inputs, files) ==
  /\ reviewModalShown
  /\ saveReviewT.pc = "idle"
  /\ CanStart
  /\ \E typed \in inputs \cup {ReviewTextOf(reviewForm)}, file \in files :
       LET f == [reviewForm EXCEPT !.titulo = typed.titulo,
                                   !.imagen_url = typed.imagen_url,
                                   !.contenido = typed.contenido]
           data == ReviewData(f) IN
       /\ reviewForm' = f
       /\ IF ReviewInvalid(data) # ""
            THEN /\ reviewFormError' = ReviewInvalid(data)
                 /\ UNCHANGED <<net, saveReviewT>>
            ELSE /\ UNCHANGED reviewFormError
                 /\ IF file
                      THEN /\ net' = [net EXCEPT !["saveReview"] =
                                        Sent(UploadRequest(getToken))]
                           /\ saveReviewT' = [pc |-> "upload", token |-> getToken,
                                              data |-> data, file |-> file,
                                              submitted |-> reviewForm.id]
                      ELSE SendReview(getToken, data, file, reviewForm.id)
  /\ UNCHANGED <<token, sessionVars, srvVars, gameUI, reviewModalShown, delReviewT,
                 gridVars, alertMsg>>

\* submit of #reviewForm
SaveReviewSubmit == SaveReviewCall(ReviewInputs, BOOLEAN)

SaveReviewCatch_closes(message) ==
  /\ reviewFormError' = message
  /\ saveReviewT' = SaveReviewIdle
  /\ net' = [net EXCEPT !["saveReview"] = NoFetch]
  /\ reviewModalShown' = FALSE
  /\ UNCHANGED rl

\* catch(e){ err.textContent = e.message || ... }
SaveReviewCatch(message) ==
  /\ reviewFormError' = message
  /\ saveReviewT' = SaveReviewIdle
  /\ net' = [net EXCEPT !["saveReview"] = NoFetch]
  /\ UNCHANGED <<reviewModalShown, rl>>

UploadedOr_always(resp, typed) == Field(resp.data, "url")

\* if(respUp.ok){ data.imagen_url = r.url || data.imagen_url }
UploadedOr(resp, typed) ==
  IF Ok(resp) THEN OrElse(Field(resp.data, "url"), typed) ELSE typed

\* the upload settled: the review request leaves, with the uploaded URL if any
SaveReviewAfterUpload ==
  /\ saveReviewT.pc = "upload"
  /\ Settled("saveReview")
  /\ IF net["saveReview"].st = "failed"
       THEN SaveReviewCatch("Failed to fetch")
       ELSE /\ SendReview(saveReviewT.token,
                          [saveReviewT.data EXCEPT
                             !.imagen_url = UploadedOr(net["saveReview"].resp, @)],
                          saveReviewT.file, saveReviewT.submitted)
            /\ UNCHANGED <<reviewFormError, reviewModalShown, rl>>
  /\ UNCHANGED <<token, sessionVars, srvVars, gameUI, reviewForm, delReviewT, grid,
                 gridOwner, cardT, alertMsg>>

\* the final request settled: the error text on a failure, otherwise
\* closeReviewModal(); reloadGames()
SaveReviewEnd(resp) ==
  IF ~Ok(resp)
    THEN SaveReviewCatch(TextOr(resp, "Error guardando resena"))
    ELSE /\ reviewModalShown' = FALSE
         /\ saveReviewT' = SaveReviewIdle
         /\ CallReload("saveReview")
         /\ UNCHANGED reviewFormError

RepeatsOnFlat_always(pc, resp) == pc = "nested"

\* if(!resp.ok){ resp = await fetch(API_BASE + ENDPOINTS.reviews, ...) }
RepeatsOnFlat(pc, resp) == pc = "nested" /\ ~Ok(resp)

\* the PUT or a POST settled; a nested POST that was not ok is repeated on
\* the flat reviews endpoint
SaveReviewResume ==
  /\ saveReviewT.pc \in {"put", "nested", "flat"}
  /\ Settled("saveReview")
  /\ IF net["saveReview"].st = "failed"
       THEN SaveReviewCatch("Failed to fetch")
       ELSE IF RepeatsOnFlat(saveReviewT.pc, net["saveReview"].resp)
         THEN /\ net' = [net EXCEPT !["saveReview"] =
                           Sent(SaveRequest("POST", <<ENDPOINTS.reviews>>,
                                            saveReviewT.token, saveReviewT.data))]
              /\ saveReviewT' = [saveReviewT EXCEPT !.pc = "flat"]
              /\ UNCHANGED <<reviewFormError, reviewModalShown, rl>>
         ELSE SaveReviewEnd(net["saveReview"].resp)
  /\ UNCHANGED <<token, sessionVars, srvVars, gameUI, reviewForm, delReviewT, grid,
                 gridOwner, cardT, alertMsg>>

\* deleteReview(review): the delete button of a review on display; nothing
\* happens unless the user confirms
DeleteReviewStart ==
  /\ delReviewT = "idle"
  /\ CanStart
  /\ \E i \in DOMAIN grid, confirmed \in BOOLEAN :
       \E k \in DOMAIN grid[i].sections :
         \E j \in DOMAIN grid[i].sections[k] :
           IF ~confirmed THEN UNCHANGED <<net, delReviewT>>
           ELSE /\ net' = [net EXCEPT !["deleteReview"] =
                             Sent(DeleteRequest(
                                    <<ENDPOINTS.reviews>>
                                      \o IdText(grid[i].sections[k][j], StringOf(undefined)),
                                    getToken))]
                /\ delReviewT' = "deleting"
  /\ UNCHANGED <<token, sessionVars, srvVars, gameUI, reviewForm, reviewModalShown,
                 reviewFormError, saveReviewT, gridVars, alertMsg>>

\* the delete request settled: an alert on a failure, otherwise reloadGames()
DeleteReviewResume ==
  /\ delReviewT = "deleting"
  /\ Settled("deleteReview")
  /\ delReviewT' = "idle"
  /\ IF net["deleteReview"].st = "failed" \/ ~Ok(net["deleteReview"].resp)
       THEN /\ alertMsg' = "Error al eliminar resena"
            /\ net' = [net EXCEPT !["deleteReview"] = NoFetch]
            /\ UNCHANGED rl
       ELSE /\ CallReload("deleteReview")
            /\ UNCHANGED alertMsg
  /\ UNCHANGED <<token, sessionVars, srvVars, gameUI, reviewForm, reviewModalShown,
                 reviewFormError, saveReviewT, grid, gridOwner, cardT>>

----------------------------------------------------------------------------
(* Specification *)

vars == <<token, net, sessionVars, dashVars>>

\* the dashboard before its load event, over an empty catalog
DashInit(defaults) ==
  /\ games = << >>
  /\ nextGameId = 1
  /\ reviews = << >>
  /\ nextReviewId = 1
  /\ editingGame = << >>
  /\ gameForm = EmptyGameForm
  /\ modalShown = FALSE
  /\ formError = ""
  /\ alertMsg = ""
  /\ saveGameT = "idle"
  /\ delGameT = "idle"
  /\ reviewForm \in {ResetReviewForm(d) : d \in defaults}
  /\ reviewModalShown = FALSE
  /\ reviewFormError = ""
  /\ saveReviewT = SaveReviewIdle
  /\ delReviewT = "idle"
  /\ grid = << >>
  /\ gridOwner = 0
  \* one call of reloadGames runs at a time
  /\ rl = [r \in Renders |-> IF r = 1 THEN "idle" ELSE "off"]
  /\ cardT = [r \in Renders |-> [i \in Slots |-> CardIdle]]

Init ==
  /\ token \in {null, CorruptToken}
  /\ location = StartPage
  /\ badge = EmptyStr
  /\ now = 0
  /\ backend \in Backends
  /\ net = [h \in Handlers |-> NoFetch]
  /\ loginT = LoginIdle("none")
  /\ raT = RaIdle("none")
  /\ observing = FALSE
  /\ legacyT = LegacyIdle("none", << >>)
  /\ legacyToken = null
  /\ seen = {}
  /\ DashInit({<<"5">>})

Next ==
  \/ LoginStart
  \/ LoginAfterForm
  \/ LoginAfterAlt
  \/ LoginAfterJson
  \/ RequireAuthStart
  \/ RequireAuthResume
  \/ Logout
  \/ ServeAuth
  \/ FetchFail
  \/ Tick

Spec == Init /\ [][Next]_vars

\* the login form alone, with every failed login recorded
InitLogin ==
  /\ token \in {null, CorruptToken}
  /\ location = StartPage
  /\ badge = EmptyStr
  /\ now = 0
  /\ backend \in Backends
  /\ net = [h \in Handlers |-> NoFetch]
  /\ loginT = LoginIdle("none")
  /\ raT = RaIdle("none")
  /\ observing = TRUE
  /\ legacyT = LegacyIdle("none", << >>)
  /\ legacyToken = null
  /\ seen = {}
  /\ DashInit({<<"5">>})

NextLogin ==
  \/ LoginStart
  \/ LoginAfterForm
  \/ LoginAfterAlt
  \/ LoginAfterJson
  \/ ServeAuth
  \/ FetchFail

SpecLogin == InitLogin /\ [][NextLogin]_vars

\* the login form against backends of any make
InitShapes ==
  /\ token \in {null, CorruptToken}
  /\ location = StartPage
  /\ badge = EmptyStr
  /\ now = 0
  /\ backend \in AnyBackends
  /\ net = [h \in Handlers |-> NoFetch]
  /\ loginT = LoginIdle("none")
  /\ raT = RaIdle("none")
  /\ observing = FALSE
  /\ legacyT = LegacyIdle("none", << >>)
  /\ legacyToken = null
  /\ seen = {}
  /\ DashInit({<<"5">>})

SpecShapes == InitShapes /\ [][NextLogin]_vars

\* setToken(t), called by a script of the page with a value of its own
SetTokenCall ==
  /\ \E t \in {null, undefined, EmptyStr, CorruptToken} : setToken(t)
  /\ UNCHANGED <<net, sessionVars, dashVars>>

\* everything that writes the token storage, against backends of any make
NextTokens ==
  \/ SetTokenCall
  \/ LoginStart
  \/ LoginAfterForm
  \/ LoginAfterAlt
  \/ LoginAfterJson
  \/ RequireAuthStart
  \/ RequireAuthResume
  \/ Logout
  \/ ServeAuth
  \/ FetchFail

SpecTokens == InitShapes /\ [][NextTokens]_vars

\* the dashboard's game handlers, with logins changing who is signed in,
\* against a backend that takes the form login and over a network that
\* loses nothing
InitGames ==
  /\ token = null
  /\ location = StartPage
  /\ badge = EmptyStr
  /\ now = 0
  /\ backend = [kind |-> "both", status |-> 200, carries |-> {"access_token"},
                nested |-> TRUE, refusal |-> 401]
  /\ net = [h \in Handlers |-> NoFetch]
  /\ loginT = LoginIdle("none")
  /\ raT = RaIdle("none")
  /\ observing = FALSE
  /\ legacyT = LegacyIdle("none", << >>)
  /\ legacyToken = null
  /\ seen = {}
  /\ DashInit({<<"5">>})

\* a user signs in from the login form while the dashboard is open elsewhere
DashLogin ==
  /\ CanStart
  /\ LoginCall({c \in Credentials : Kind(c[1], c[2]) = "valid"})

NextGames ==
  \/ DashLogin
  \/ LoginAfterForm
  \/ ServeAuth
  \/ ServeGames
  \/ ServeReviews
  \/ ReloadGames
  \/ ReloadResume
  \/ CardResume
  \/ OpenCreate
  \/ OpenEdit
  \/ EscapeKey
  \/ SaveGameSubmit
  \/ SaveGameResume
  \/ DeleteGameStart
  \/ DeleteGameResume

SpecGames == InitGames /\ [][NextGames]_vars

\* the dashboard of a signed-in user over a catalog that holds her one game
InitReviews ==
  /\ token = <<"alice", TTL, GoodSig>>
  /\ location = StartPage
  /\ badge = EmptyStr
  /\ now = 0
  /\ backend = [kind |-> "both", status |-> 200, carries |-> {"access_token"},
                nested |-> TRUE, refusal |-> 401]
  /\ net = [h \in Handlers |-> NoFetch]
  /\ loginT = LoginIdle("true")
  /\ raT = RaIdle("none")
  /\ observing = FALSE
  /\ legacyT = LegacyIdle("none", << >>)
  /\ legacyToken = null
  /\ seen = {}
  /\ games = [i \in {1} |-> NewGame(1, "alice", GameData(CHOOSE g \in GameInputs :
                                                           GameInvalid(GameData(g)) = ""))]
  /\ nextGameId = 2
  /\ reviews = << >>
  /\ nextReviewId = 1
  /\ editingGame = NoGame
  /\ gameForm = EmptyGameForm
  /\ modalShown = FALSE
  /\ formError = ""
  /\ alertMsg = ""
  /\ saveGameT = "idle"
  /\ delGameT = "idle"
  /\ reviewForm \in {ResetReviewForm(d) : d \in RatingDefaults}
  /\ reviewModalShown = FALSE
  /\ reviewFormError = ""
  /\ saveReviewT = SaveReviewIdle
  /\ delReviewT = "idle"
  /\ grid = << >>
  /\ gridOwner = 0
  \* one call of reloadGames runs at a time
  /\ rl = [r \in Renders |-> IF r = 1 THEN "idle" ELSE "off"]
  /\ cardT = [r \in Renders |-> [i \in Slots |-> CardIdle]]

\* a review is written with one text, no file, and any of the stars
StarsSave ==
  SaveReviewCall({[titulo |-> <<"Great">>, imagen_url |-> << >>,
                   contenido |-> <<"fun">>]}, {FALSE})

NextStars ==
  \/ ServeGames
  \/ ServeReviews
  \/ ReloadGames
  \/ ReloadResume
  \/ CardResume
  \/ OpenCreateReview
  \/ OpenEditReview
  \/ StarClick
  \/ StarsSave
  \/ SaveReviewResume

SpecStars == InitReviews /\ [][NextStars]_vars

NextUpload ==
  \/ ServeGames
  \/ ServeReviews
  \/ FetchFail
  \/ ReloadGames
  \/ ReloadResume
  \/ CardResume
  \/ OpenCreateReview
  \/ OpenEditReview
  \/ SaveReviewSubmit
  \/ SaveReviewAfterUpload
  \/ SaveReviewResume

SpecUpload == InitReviews /\ [][NextUpload]_vars

\* the dashboard of a signed-in user over an empty catalog: both forms
InitForms ==
  /\ token = <<"alice", TTL, GoodSig>>
  /\ location = StartPage
  /\ badge = EmptyStr
  /\ now = 0
  /\ backend = [kind |-> "both", status |-> 200, carries |-> {"access_token"},
                nested |-> TRUE, refusal |-> 401]
  /\ net = [h \in Handlers |-> NoFetch]
  /\ loginT = LoginIdle("true")
  /\ raT = RaIdle("none")
  /\ observing = FALSE
  /\ legacyT = LegacyIdle("none", << >>)
  /\ legacyToken = null
  /\ seen = {}
  /\ DashInit({<<"5">>})

NextForms ==
  \/ ServeGames
  \/ ServeReviews
  \/ ReloadGames
  \/ ReloadResume
  \/ CardResume
  \/ OpenCreate
  \/ OpenEdit
  \/ SaveGameSubmit
  \/ SaveGameResume
  \/ OpenCreateReview
  \/ OpenEditReview
  \/ SaveReviewSubmit
  \/ SaveReviewAfterUpload
  \/ SaveReviewResume

SpecForms == InitForms /\ [][NextForms]_vars

\* both save handlers over a network that can lose a request or its
\* response, for a user who is signed in until she signs out in another tab
ValidGameSave ==
  SaveGameCall({[titulo |-> <<"Doom">>, categoria |-> <<"FPS">>,
                  descripcion |-> << >>, portada_url |-> << >>]})

ValidReviewSave ==
  SaveReviewCall({[titulo |-> <<"Great">>, imagen_url |-> << >>,
                   contenido |-> <<"fun">>]}, BOOLEAN)

NextSaves ==
  \/ ServeGames
  \/ ServeReviews
  \/ FetchFail
  \/ ReloadResume
  \/ CardResume
  \/ OpenCreate
  \/ ValidGameSave
  \/ SaveGameResume
  \/ OpenCreateReview
  \/ ValidReviewSave
  \/ SaveReviewAfterUpload
  \/ SaveReviewResume
  \/ Logout

\* ... against a backend that offers the reviews nested under a game, or
\* only the flat reviews collection
InitSaves ==
  /\ token = <<"alice", TTL, GoodSig>>
  /\ location = StartPage
  /\ badge = EmptyStr
  /\ now = 0
  /\ backend \in {[kind |-> "both", status |-> 200, carries |-> {"access_token"},
                    nested |-> n, refusal |-> 401] : n \in BOOLEAN}
  /\ net = [h \in Handlers |-> NoFetch]
  /\ loginT = LoginIdle("true")
  /\ raT = RaIdle("none")
  /\ observing = FALSE
  /\ legacyT = LegacyIdle("none", << >>)
  /\ legacyToken = null
  /\ seen = {}
  /\ DashInit({<<"5">>})

SpecSaves == InitSaves /\ [][NextSaves]_vars

\* the dashboard of a signed-in user who owns two games, the first of them
\* reviewed, with calls of reloadGames that overlap
InitRenders ==
  /\ token = <<"alice", TTL, GoodSig>>
  /\ location = StartPage
  /\ badge = EmptyStr
  /\ now = 0
  /\ backend = [kind |-> "both", status |-> 200, carries |-> {"access_token"},
                nested |-> TRUE, refusal |-> 401]
  /\ net = [h \in Handlers |-> NoFetch]
  /\ loginT = LoginIdle("true")
  /\ raT = RaIdle("none")
  /\ observing = FALSE
  /\ legacyT = LegacyIdle("none", << >>)
  /\ legacyToken = null
  /\ seen = {}
  /\ games = [i \in {1, 2} |->
                NewGame(i, "alice",
                        [titulo |-> IF i = 1 THEN <<"Doom">> ELSE <<"Quake">>,
                         categoria |-> <<"FPS">>, descripcion |-> << >>,
                         portada_url |-> << >>])]
  /\ nextGameId = 3
  /\ reviews = [i \in {1} |->
                  NewReview(1, "alice", 1,
                            [titulo |-> <<"Great">>, imagen_url |-> << >>,
                             rating |-> 5, contenido |-> <<"fun">>])]
  /\ nextReviewId = 2
  /\ editingGame = NoGame
  /\ gameForm = EmptyGameForm
  /\ modalShown = FALSE
  /\ formError = ""
  /\ alertMsg = ""
  /\ saveGameT = "idle"
  /\ delGameT = "idle"
  /\ reviewForm = ResetReviewForm(<<"5">>)
  /\ reviewModalShown = FALSE
  /\ reviewFormError = ""
  /\ saveReviewT = SaveReviewIdle
  /\ delReviewT = "idle"
  /\ grid = << >>
  /\ gridOwner = 0
  /\ rl = [r \in Renders |-> "idle"]
  /\ cardT = [r \in Renders |-> [i \in Slots |-> CardIdle]]

NextRenders ==
  \/ ServeGames
  \/ ServeReviews
  \/ ReloadGames
  \/ ReloadResume
  \/ CardResume
  \/ DeleteGameStart
  \/ DeleteGameResume

SpecRenders == InitRenders /\ [][NextRenders]_vars

\* the same credentials submitted on a page of each version of auth.js,
\* both holding the same token or none, against backends that take form and
\* JSON bodies on the login endpoint, name the token in any way and refuse a
\* wrong password with 401, 400 or 422
InitEquiv ==
  /\ token \in {null, CorruptToken}
  /\ location = StartPage
  /\ badge = EmptyStr
  /\ now = 0
  /\ backend \in {[b EXCEPT !.refusal = s] :
                     b \in {a \in AnyBackends : a.kind = "both"},
                     s \in {401, 400, 422}}
  /\ net = [h \in Handlers |-> NoFetch]
  /\ loginT = LoginIdle("none")
  /\ raT = RaIdle("none")
  /\ observing = FALSE
  /\ seen = {}
  /\ legacyT \in {LegacyIdle("none", c) : c \in Credentials}
  /\ legacyToken = token
  /\ DashInit({<<"5">>})

\* the corrected login is called once, with what the form is filled with
EquivLogin ==
  /\ loginT.result = "none"
  /\ LoginCall({legacyT.args})

NextEquiv ==
  \/ EquivLogin
  \/ LoginAfterForm
  \/ LoginAfterAlt
  \/ LoginAfterJson
  \/ LegacyLoginStart
  \/ LegacyLoginResume
  \/ ServeAuth

SpecEquiv == InitEquiv /\ [][NextEquiv]_vars

----------------------------------------------------------------------------
(* Claims *)

\* the step in which requireAuth resumes from its /me fetch
RequireAuthResumes == raT.pc = "me" /\ raT'.pc = "idle"

\* the /me check did not succeed: the fetch rejected or the response is not ok
MeCheckFailed ==
  net["requireAuth"].st = "failed" \/ ~Ok(net["requireAuth"].resp)

\* C1: whenever requireAuth resumes with a stored token and the /me check did
\* not succeed (a non-ok response, or a rejected fetch), the stored token is
\* removed, the page is replaced by the login page, and nothing is thrown
\* out of requireAuth.
C1_FailedCheckForcesRelogin ==
  [][ (RequireAuthResumes /\ MeCheckFailed)
        => (token' = null /\ location' = LoginPage /\ raT'.outcome # "threw") ]_vars

C1_Witness ==
  /\ raT.outcome = "redirected: not authorized"
  /\ token = null
  /\ location = LoginPage

\* the step in which login returns having held the response `resp`
LoginReturns == loginT.pc # "idle" /\ loginT'.pc = "idle" /\ net["login"].st = "done"

\* the token a request of handler h presents
Presented(h) == Credential(net[h].req.auth)

\* whether a presented credential is a token some login was answered with
Issued(t) == Len(t) = 3 /\ t[3] = GoodSig

\* C2 as stated: a requireAuth that presents a token obtained from a
\* successful login, and whose /me request is answered, always resolves to
\* that user and never redirects.
C2_AsStated ==
  [][ (RequireAuthResumes /\ net["requireAuth"].st = "done"
       /\ Issued(Presented("requireAuth")))
        => (raT'.outcome = "ok" /\ badge' = <<Presented("requireAuth")[1]>>) ]_vars

\* C2 (amended): when the response login ends up holding is ok and carries
\* access_token, login returns true and stores exactly that access_token,
\* which names the user who logged in; /me answers a request presenting such
\* a token before its expiry with that user; and a requireAuth whose /me
\* fetch is answered ok shows that user and neither redirects nor touches
\* the stored token.
C2_LoginTokenResolvesToUser ==
  [][ /\ (LoginReturns /\ Ok(net["login"].resp)
          /\ Truthy(Field(net["login"].resp.data, "access_token")))
         => /\ loginT'.result = "true"
            /\ token' = net["login"].resp.data.access_token
            /\ token'[1] = loginT.email
      /\ (net["requireAuth"].st = "sent" /\ net'["requireAuth"].st = "done"
          /\ Issued(Presented("requireAuth")) /\ now < Presented("requireAuth")[2])
         => /\ Ok(net'["requireAuth"].resp)
            /\ net'["requireAuth"].resp.data.username = <<Presented("requireAuth")[1]>>
      /\ (RequireAuthResumes /\ ~MeCheckFailed)
         => /\ raT'.outcome = "ok"
            /\ badge' = <<Presented("requireAuth")[1]>>
            /\ token' = token
            /\ location' = location ]_vars

C2_Witness ==
  /\ loginT.result = "true"
  /\ raT.outcome = "ok"
  /\ Issued(token)
  /\ badge = <<token[1]>>

\* C3 as stated: a login with an unknown identifier and a login with a wrong
\* password for a known identifier get the same status and are the same to
\* the caller: same requests, same result, same effect on storage.
C3_FailuresIndistinguishable ==
  \A o1, o2 \in seen :
    (o1.kind = "unknown" /\ o2.kind = "wrong password")
      => /\ o1.status = o2.status
         /\ o1.reqs = o2.reqs
         /\ o1.result = o2.result
         /\ o1.stored = o2.stored

\* the backend answers, in this step, the request handler h is awaiting
Answered(h) == net[h].st = "sent" /\ net'[h].st = "done"

\* whom the backend takes the request of handler h to come from
Actor(h) == Authenticate(net[h].req.auth)

\* the id of the game the request of handler h names
Target(h) == ParseInt(Tail(net[h].req.path)).v

\* an authenticated PUT or DELETE of an existing game is answered
GameMutation(h) ==
  /\ Answered(h)
  /\ net[h].req.method \in {"PUT", "DELETE"}
  /\ IsGameItem(net[h].req)
  /\ Actor(h).ok
  /\ Target(h) \in DOMAIN games

\* C4: a game created by an authenticated user is owned by that user; an
\* update or delete of a game by anyone but its owner is answered 403 and
\* leaves the games unchanged, and the owner's own update or delete succeeds
\* and takes effect: a mutation is permitted iff owner = actor.
C4_OwnerOnlyMutates ==
  [][ \A h \in {"saveGame", "deleteGame"} :
        /\ (Answered(h) /\ net[h].req.method = "POST" /\ Actor(h).ok)
           => /\ nextGameId \in DOMAIN games'
              /\ games'[nextGameId].owner = Actor(h).user
        /\ GameMutation(h)
           => IF games[Target(h)].owner # Actor(h).user
                THEN /\ net'[h].resp.status = 403
                     /\ games' = games
                ELSE /\ Ok(net'[h].resp)
                     /\ net[h].req.method = "PUT"
                        => games' = [games EXCEPT ![Target(h)] =
                                       WithData(@, net[h].req.body)]
                     /\ net[h].req.method = "DELETE"
                        => Target(h) \notin DOMAIN games' ]_vars

C4_Witness ==
  \E h \in {"saveGame", "deleteGame"} :
    /\ net[h].st = "done"
    /\ net[h].resp.status = 403
    /\ \E i \in DOMAIN games : games[i].owner # Presented(h)[1]

\* the handlers that send mutating requests
Mutators == {"saveGame", "deleteGame", "saveReview", "deleteReview"}

\* C5 as stated: every request of saveGame, deleteGame, saveReview and
\* deleteReview carries an Authorization header "Bearer <token>" whose token
\* was issued by a login; none carries a missing or null token.
C5_MutationsCarryLoginToken ==
  \A h \in Mutators :
    net[h].st # "none"
      => /\ net[h].req.auth # NoHeader
         /\ Head(net[h].req.auth) = "Bearer "
         /\ Presented(h) # StringOf(null)
         /\ Issued(Presented(h))

\* C6: logout removes the stored token without a request to the server; an
\* absent token is only ever replaced by a login that returns true; and
\* requireAuth, finding no token, redirects to the login page.
C6_LogoutDiscardsTokenLocally ==
  [][ /\ (location' = IndexPage /\ location # IndexPage)
         => (token' = null /\ net' = net)
      /\ (token = null /\ token' # null)
         => (loginT.pc # "idle" /\ loginT'.pc = "idle" /\ loginT'.result = "true")
      /\ (raT.pc = "idle" /\ raT' # raT /\ token = null)
         => (location' = LoginPage /\ raT'.pc = "idle" /\ net' = net) ]_vars

C6_Witness ==
  /\ location = IndexPage
  /\ token = null
  /\ loginT.result = "true"

ReviewFields == {"titulo", "imagen_url", "rating", "contenido", "game_id"}

\* a create or update request of saveReview, not its image upload, is out
ReviewRequestOut ==
  net["saveReview"].st # "none" /\ ~IsUpload(net["saveReview"].req)

\* C7: the body of every request of saveGame has exactly the fields titulo,
\* categoria, descripcion and portada_url, and the body of every create or
\* update request of saveReview exactly titulo, imagen_url, rating, contenido
\* and game_id: no owner or user field.
C7_BodiesCarryNoOwner ==
  /\ net["saveGame"].st # "none"
     => DOMAIN net["saveGame"].req.body = GameFields
  /\ ReviewRequestOut
     => DOMAIN net["saveReview"].req.body = ReviewFields

C7_Witness ==
  /\ ReviewRequestOut
  /\ net["saveReview"].req.method = "PUT"
  /\ \E i \in DOMAIN games : games[i].owner = "alice"

\* C8: a submit with a file attached sends the upload first, and the review
\* request leaves only once the upload was answered, with imagen_url the
\* url of an ok upload response that carries a non-empty one and otherwise
\* the URL typed in the form; a submit without a file sends the review
\* request at once, and an upload is only ever out for a submit with a file.
C8_UploadPrecedesReview ==
  [][ LET t == saveReviewT
          n == net["saveReview"] IN
      /\ (t.pc = "idle" /\ saveReviewT'.pc # "idle")
         => /\ saveReviewT'.data.imagen_url = Trim(reviewForm'.imagen_url)
            /\ net'["saveReview"].st = "sent"
            /\ IF saveReviewT'.file
                 THEN saveReviewT'.pc = "upload" /\ IsUpload(net'["saveReview"].req)
                 ELSE /\ saveReviewT'.pc \in {"put", "nested"}
                      /\ ~IsUpload(net'["saveReview"].req)
                      /\ net'["saveReview"].req.body.imagen_url
                           = Trim(reviewForm'.imagen_url)
      /\ (t.pc = "upload" /\ saveReviewT'.pc \notin {"upload", "idle"})
         => /\ n.st = "done"
            /\ saveReviewT'.pc \in {"put", "nested"}
            /\ ~IsUpload(net'["saveReview"].req)
            /\ net'["saveReview"].req.body.imagen_url
                 = IF Ok(n.resp) /\ Truthy(Field(n.resp.data, "url"))
                     THEN n.resp.data.url
                     ELSE t.data.imagen_url
      /\ (net'["saveReview"].st # "none" /\ IsUpload(net'["saveReview"].req))
         => (saveReviewT'.pc = "upload" /\ saveReviewT'.file) ]_vars

C8_Witness ==
  /\ saveReviewT.pc \in {"put", "nested"}
  /\ saveReviewT.file
  /\ net["saveReview"].req.body.imagen_url = UploadedUrl

\* C9: whatever openCreateReview, openEditReview and star clicks came before,
\* the rating field of an open review form reads as an integer of 1..5, the
\* rating in the body of every create or update request of saveReview is an
\* integer of 1..5, and so is the rating of every stored review.
C9_RatingWithinOneToFive ==
  /\ reviewModalShown
     => (~ParseInt(reviewForm.rating).nan /\ ParseInt(reviewForm.rating).v \in 1..5)
  /\ ReviewRequestOut => net["saveReview"].req.body.rating \in 1..5
  /\ \A i \in DOMAIN reviews : reviews[i].rating \in 1..5

C9_Witness ==
  /\ ReviewRequestOut
  /\ net["saveReview"].req.method = "PUT"
  /\ net["saveReview"].req.body.rating = 3
  /\ \E i \in DOMAIN reviews : reviews[i].rating = 1

\* C10: the list request of fetchGames leaves whether or not a token is
\* stored, without an Authorization header when none is and with
\* "Bearer <token>" when one is; the review listing requests of the cards
\* never carry an Authorization header; and a list request without
\* Authorization is answered ok.
C10_ReadsNeedNoToken ==
  [][ \A r \in Renders :
        /\ (net[RlKey(r)].st = "none" /\ net'[RlKey(r)].st = "sent")
           => /\ net'[RlKey(r)].req.method = "GET"
              /\ net'[RlKey(r)].req.auth
                   = IF Truthy(token) THEN Bearer(token) ELSE NoHeader
        /\ \A i \in Slots :
             net'[CardKey(r, i)].st = "sent"
               => /\ net'[CardKey(r, i)].req.method = "GET"
                  /\ net'[CardKey(r, i)].req.auth = NoHeader
        /\ (Answered(RlKey(r)) /\ net[RlKey(r)].req.auth = NoHeader)
           => Ok(net'[RlKey(r)].resp) ]_vars

C10_Witness ==
  /\ token = null
  /\ net[RlKey(1)].st = "done"
  /\ net[RlKey(1)].req.auth = NoHeader
  /\ Ok(net[RlKey(1)].resp)

\* the response login's awaited fetch got
Latest == net["login"].resp

\* the response login holds in `resp` once the awaited fetch got its answer
Held ==
  IF loginT.pc = "a" \/ Ok(Latest) THEN Latest ELSE loginT.resp

\* none of access_token, token, jwt of a response is a usable token
NoToken(resp) == \A f \in TokenFields : ~Truthy(Field(resp.data, f))

\* C11: login starts with (a) the form POST to the login endpoint; (b) the
\* form POST to /token leaves only from (a), on a non-ok 404 or 405; (c) the
\* JSON POST to the login endpoint leaves only when no attempt was ok and the
\* response held is 415, 422 or 400; after an ok response login sends
\* nothing more; and a login that returns, returns false exactly when the
\* response it holds is not ok or carries no token.
C11_FallbackOrder ==
  [][ /\ (loginT.pc = "idle" /\ loginT'.pc # "idle")
         => /\ loginT'.pc = "a"
            /\ net'["login"]
                 = Sent(LoginRequest(ENDPOINTS.login, FormType,
                                     [username |-> loginT'.email,
                                      password |-> loginT'.password]))
      /\ (loginT.pc # "b" /\ loginT'.pc = "b")
         => /\ loginT.pc = "a"
            /\ net["login"].st = "done"
            /\ ~Ok(Latest) /\ Latest.status \in {404, 405}
            /\ net'["login"]
                 = Sent(LoginRequest(ENDPOINTS.loginAlt, FormType,
                                     [username |-> loginT.email,
                                      password |-> loginT.password]))
      /\ (loginT.pc # "c" /\ loginT'.pc = "c")
         => /\ loginT.pc \in {"a", "b"}
            /\ net["login"].st = "done"
            /\ ~Ok(Latest) /\ ~Ok(Held) /\ Held.status \in {415, 422, 400}
            /\ net'["login"]
                 = Sent(LoginRequest(ENDPOINTS.login, JsonType,
                                     [email |-> loginT.email,
                                      password |-> loginT.password]))
      /\ loginT.pc \in {"b", "c"} => ~Ok(loginT.resp)
      /\ (loginT.pc # "idle" /\ loginT' # loginT /\ net["login"].st = "done"
          /\ Ok(Latest))
         => (loginT'.pc = "idle" /\ net'["login"] = NoFetch)
      /\ LoginReturns
         => /\ loginT'.result \in {"true", "false"}
            /\ loginT'.result = "false" <=> (~Ok(Held) \/ NoToken(Held)) ]_vars

C11_Witness ==
  /\ loginT.pc = "c"
  /\ net["login"].st = "done"
  /\ Ok(Latest)
  /\ NoToken(Latest)

\* saveGame sends its request in this step
GameSaveLeaves == saveGameT = "idle" /\ saveGameT' = "saving"

\* saveReview sends its create or update request in this step
ReviewSaveLeaves ==
  saveReviewT.pc \in {"idle", "upload"} /\ saveReviewT'.pc \in {"put", "nested"}

\* C12 as stated: the request a submit of the game form issues is a PUT to
\* the form's id exactly when the form was submitted holding a non-empty id
\* (opened by openEdit), and otherwise a POST; likewise for the review form
\* (openEditReview): a submit made after openCreate / openCreateReview never
\* issues a PUT.
C12_UpdateIffOpenedForEdit ==
  [][ /\ GameSaveLeaves
         => IF Truthy(gameForm.id) /\ editingGame # NoGame
              THEN /\ net'["saveGame"].req.method = "PUT"
                   /\ net'["saveGame"].req.path = <<ENDPOINTS.games>> \o gameForm.id
              ELSE net'["saveGame"].req.method = "POST"
      /\ ReviewSaveLeaves
         => IF Truthy(saveReviewT'.submitted)
              THEN /\ net'["saveReview"].req.method = "PUT"
                   /\ net'["saveReview"].req.path
                        = <<ENDPOINTS.reviews>> \o saveReviewT'.submitted
              ELSE net'["saveReview"].req.method = "POST" ]_vars


\* saveGame, or saveReview, returns in this step
GameSaveReturns == saveGameT = "saving" /\ saveGameT' = "idle"
ReviewSaveReturns == saveReviewT.pc # "idle" /\ saveReviewT'.pc = "idle"

\* the request handler h awaited was answered, and with an ok status
SavedOk(h) == net[h].st = "done" /\ Ok(net[h].resp)

\* reloadGames() is called in this step: a list request leaves
ReloadCalled ==
  \E r \in Renders : rl[r] = "idle" /\ rl'[r] = "fetch" /\ net'[RlKey(r)].st = "sent"

\* C13: saveGame and saveReview close their modal and call reloadGames only
\* in the step in which their final save request is found answered ok; when
\* the request was answered not ok or its fetch failed, the handler returns
\* with the modal as it was, the form's error text set and no reload called,
\* and while a handler is still awaiting it neither closes nor reloads
C13_CloseAndReloadOnlyAfterOk ==
  [][ /\ GameSaveReturns =>
           IF SavedOk("saveGame")
             THEN ~modalShown' /\ ReloadCalled
             ELSE /\ modalShown' = modalShown
                  /\ formError' # ""
                  /\ rl' = rl
      /\ ReviewSaveReturns =>
           IF SavedOk("saveReview") /\ saveReviewT.pc \in {"put", "nested", "flat"}
             THEN ~reviewModalShown' /\ ReloadCalled
             ELSE /\ reviewModalShown' = reviewModalShown
                  /\ reviewFormError' # ""
                  /\ rl' = rl
      /\ (saveGameT' # saveGameT /\ ~GameSaveReturns) =>
           modalShown' = modalShown /\ rl' = rl
      /\ (saveReviewT' # saveReviewT /\ ~ReviewSaveReturns) =>
           reviewModalShown' = reviewModalShown /\ rl' = rl
      /\ (modalShown /\ ~modalShown') => GameSaveReturns /\ SavedOk("saveGame")
      /\ (reviewModalShown /\ ~reviewModalShown') =>
           ReviewSaveReturns /\ SavedOk("saveReview")
      /\ ReloadCalled =>
           \/ GameSaveReturns /\ SavedOk("saveGame")
           \/ ReviewSaveReturns /\ SavedOk("saveReview") ]_vars

\* a review save was answered not ok after a game save lost its fetch: both
\* modals are open and both error texts are set
C13_Witness ==
  /\ saveGameT = "idle" /\ modalShown /\ formError = "Failed to fetch"
  /\ saveReviewT.pc = "idle" /\ reviewModalShown
  /\ reviewFormError \notin {"", "Failed to fetch"}

\* saveReview sends a request that creates a review in this step
CreateSent ==
  /\ net'["saveReview"] # net["saveReview"]
  /\ net'["saveReview"].st = "sent"
  /\ net'["saveReview"].req.method = "POST"
  /\ ~IsUpload(net'["saveReview"].req)

\* C14: of the requests that create a review, saveReview sends the POST to
\* /juegos/<game_id>/reviews first, as the first create request of a submit,
\* and the POST to the flat reviews endpoint only on finding the nested POST
\* answered not ok, with the same body; an ok nested answer or any flat
\* outcome ends the handler without a further request, and a create request
\* answered not ok has stored no review
C14_FlatOnlyAfterFailedNested ==
  [][ /\ CreateSent =>
           LET req == net'["saveReview"].req IN
           \/ /\ saveReviewT.pc \in {"idle", "upload"}
              /\ saveReviewT'.pc = "nested"
              /\ req.path = <<ENDPOINTS.gameReviews>> \o req.body.game_id
                              \o <<"/reviews">>
           \/ /\ saveReviewT.pc = "nested"
              /\ saveReviewT'.pc = "flat"
              /\ net["saveReview"].st = "done"
              /\ ~Ok(net["saveReview"].resp)
              /\ req.path = <<ENDPOINTS.reviews>>
              /\ req.body = net["saveReview"].req.body
      /\ (saveReviewT.pc = "nested" /\ SavedOk("saveReview")
            /\ saveReviewT' # saveReviewT) =>
           saveReviewT'.pc = "idle" /\ net'["saveReview"] = NoFetch
      /\ (saveReviewT.pc = "flat" /\ saveReviewT' # saveReviewT) =>
           saveReviewT'.pc = "idle" /\ net'["saveReview"] = NoFetch
      /\ (Answered("saveReview") /\ ~Ok(net'["saveReview"].resp)) =>
           reviews' = reviews ]_vars

\* the flat POST, sent after the nested one was refused, stored the review
C14_Witness ==
  /\ saveReviewT.pc = "flat"
  /\ SavedOk("saveReview")
  /\ DOMAIN reviews # {}

\* what the claim calls a validation failure: a required field empty once
\* trimmed, or an image URL that is not empty and not an http(s) one
GameRefused(f) ==
  \/ Trim(f.titulo) = EmptyStr
  \/ Trim(f.categoria) = EmptyStr
  \/ Trim(f.portada_url) # EmptyStr /\ ~IsHttpUrl(Trim(f.portada_url))

ReviewRefused(f) ==
  \/ Trim(f.titulo) = EmptyStr
  \/ Trim(f.contenido) = EmptyStr
  \/ Trim(f.game_id) = EmptyStr
  \/ Trim(f.imagen_url) # EmptyStr /\ ~IsHttpUrl(Trim(f.imagen_url))

\* the game form is submitted in this step with newly typed fields that are
\* a validation failure; likewise the review form
InvalidGameSubmit ==
  /\ modalShown /\ saveGameT = "idle"
  /\ gameForm' # gameForm
  /\ \E typed \in GameInputs :
       gameForm' = [id |-> gameForm.id, titulo |-> typed.titulo,
                    categoria |-> typed.categoria,
                    descripcion |-> typed.descripcion,
                    portada_url |-> typed.portada_url]
  /\ GameRefused(gameForm')

InvalidReviewSubmit ==
  /\ reviewModalShown /\ saveReviewT.pc = "idle"
  /\ reviewForm' # reviewForm
  /\ \E typed \in ReviewInputs :
       reviewForm' = [reviewForm EXCEPT !.titulo = typed.titulo,
                                        !.imagen_url = typed.imagen_url,
                                        !.contenido = typed.contenido]
  /\ ReviewRefused(reviewForm')

\* C15: a submit of saveGame whose title or category is empty after trimming,
\* or of saveReview whose title, content or game id is, or of either with a
\* non-empty image URL that does not start with http:// or https://, sends no
\* request at all (the upload included), sets the form's error text and leaves
\* the modal open; and a save handler that does send on a submit was
\* submitted a form that is no validation failure
C15_InvalidSubmitSendsNothing ==
  [][ /\ InvalidGameSubmit =>
           /\ net' = net
           /\ saveGameT' = "idle"
           /\ formError' # ""
           /\ modalShown'
      /\ InvalidReviewSubmit =>
           /\ net' = net
           /\ saveReviewT'.pc = "idle"
           /\ reviewFormError' # ""
           /\ reviewModalShown'
      /\ (saveGameT = "idle" /\ saveGameT' # "idle") => ~GameRefused(gameForm')
      /\ (saveReviewT.pc = "idle" /\ saveReviewT'.pc # "idle") =>
           ~ReviewRefused(reviewForm') ]_vars

\* a cover URL without http(s):// was refused in the game form, and a blank
\* content in the review form, with no request of a save handler in flight
C15_Witness ==
  /\ modalShown /\ saveGameT = "idle" /\ net["saveGame"] = NoFetch
  /\ formError = "La URL de portada debe empezar por http(s)://"
  /\ GameRefused(gameForm)
  /\ reviewModalShown /\ saveReviewT.pc = "idle" /\ net["saveReview"] = NoFetch
  /\ reviewFormError = "Titulo, contenido y juego son obligatorios."
  /\ ReviewRefused(reviewForm)

\* requireAuth is called in this step and finds no token stored
RequireAuthWithoutToken == raT.pc = "idle" /\ raT' # raT /\ ~Truthy(token)

\* C16: requireAuth called with no token stored replaces the location by the
\* login page in that same step and returns, sends no request and leaves the
\* token storage as it was
C16_NoTokenRedirectsAtOnce ==
  [][ RequireAuthWithoutToken =>
        /\ location' = LoginPage
        /\ raT'.pc = "idle"
        /\ net' = net
        /\ token' = token ]_vars

\* requireAuth has sent the user to the login page for want of a token
C16_Witness ==
  /\ raT = RaIdle("redirected: no token")
  /\ location = LoginPage
  /\ token = null
  /\ net["requireAuth"] = NoFetch

\* logout() runs in this step
LogoutRuns ==
  /\ location' = IndexPage
  /\ loginT' = loginT /\ raT' = raT /\ net' = net

\* C17: no step of login changes the stored token except the return of true:
\* a login that returns false (no ok response, or an ok one without
\* access_token, token or jwt) or rejects leaves the storage as it is; and the
\* stored token is never replaced by an empty or null value, whatever
\* setToken is given, except by logout and by a requireAuth whose check failed
C17_FailedLoginKeepsToken ==
  [][ /\ (loginT' # loginT /\ ~(loginT'.pc = "idle" /\ loginT'.result = "true")) =>
           token' = token
      /\ (LoginReturns /\ (~Ok(Held) \/ NoToken(Held))) =>
           token' = token /\ loginT'.result = "false"
      /\ (token' # token /\ ~Truthy(token')) =>
           \/ LogoutRuns
           \/ RequireAuthResumes /\ MeCheckFailed ]_vars

\* a login answered ok without any of the token fields has returned false
\* and the token stored before is still there
C17_Witness ==
  /\ loginT = LoginIdle("false")
  /\ backend.carries = {}
  /\ backend.kind = "both"
  /\ token = CorruptToken

\* a callback of render r ends in this step although a later render has
\* replaced the cards of r
LateCallbackEnds ==
  \E r \in Renders, i \in Slots :
    /\ cardT[r][i].pc # "idle"
    /\ cardT'[r][i].pc = "idle"
    /\ gridOwner # r

\* C18: with calls of reloadGames overlapping in any order, every card on
\* display has exactly one "Resenar" button and at most one reviews section,
\* every review in that section is a review of the card's own game, and a
\* callback that ends after a later render replaced its cards changes
\* nothing in the grid
C18_CardsOfLatestRenderOnly ==
  /\ [](\A i \in DOMAIN grid :
          /\ grid[i].buttons = 1
          /\ Len(grid[i].sections) <= 1
          /\ \A k \in DOMAIN grid[i].sections :
               \A j \in DOMAIN grid[i].sections[k] :
                 grid[i].sections[k][j].game_id = grid[i].g.id)
  /\ [][LateCallbackEnds => grid' = grid]_vars

\* the second game alone is on display, rendered by a later call, while the
\* review listing of the first game, asked for by the earlier render whose
\* cards are gone, has been answered with its review and awaits its callback
C18_Witness ==
  \E r \in Renders :
    /\ gridOwner # r /\ gridOwner # 0
    /\ Len(grid) = 1 /\ grid[1].g.id = 2
    /\ cardT[r][1].pc # "idle"
    /\ net[CardKey(r, 1)].st = "done"
    /\ Ok(net[CardKey(r, 1)].resp)
    /\ net[CardKey(r, 1)].resp.data # << >>

\* both logins have returned
BothReturned ==
  /\ loginT.pc = "idle" /\ loginT.result \in {"true", "false"}
  /\ legacyT.pc = "idle" /\ legacyT.result \in {"true", "false"}

\* C19: called with the same credentials from the same stored token, against
\* a backend that takes form and JSON bodies on the login endpoint, the login
\* of the older auth.js and the login of the corrected one both return, with
\* the same boolean and the same token left in storage
C19_LoginsEquivalent ==
  (loginT.pc = "idle" /\ loginT.result # "none"
     /\ legacyT.pc = "idle" /\ legacyT.result # "none")
    => /\ BothReturned
       /\ loginT.result = legacyT.result
       /\ token = legacyToken

\* both have returned true on a backend whose response names the token in
\* more than one way, and both pages store the token that replaced the old one
C19_Witness ==
  /\ BothReturned
  /\ loginT.result = "true"
  /\ Cardinality(backend.carries) >= 2
  /\ token # CorruptToken
  /\ token = legacyToken

============================================================================
